---------------------------- MODULE Spec2Model ----------------------------
(***************************************************************************)
(* A model of echostream-terrafy: the typed object-to-configuration        *)
(* mapping (objects.py, resources.py, data_sources.py) and the terrafy run *)
(* that drives it (__init__.py).                                           *)
(*                                                                         *)
(* Strings that come from the upstream service are sequences of            *)
(* one-character strings, so that the regular-expression substitutions of  *)
(* the code can be computed character by character.  Strings the code      *)
(* builds (addresses, paths, interpolation tokens, attribute keys) are     *)
(* TLA+ strings; Str joins a character sequence into one.                  *)
(***************************************************************************)
EXTENDS Integers, Sequences, FiniteSets, TLC

(***************************************************************************)
(* Bounds of the model.                                                    *)
(***************************************************************************)
\* longest string given to the identifier normalizer on its own
MaxLen == 3

(***************************************************************************)
(* Characters.                                                             *)
(***************************************************************************)
UpperSeq ==
  << "A", "B", "C", "D", "E", "F", "G", "H", "I", "J", "K", "L", "M",
     "N", "O", "P", "Q", "R", "S", "T", "U", "V", "W", "X", "Y", "Z" >>

LowerSeq ==
  << "a", "b", "c", "d", "e", "f", "g", "h", "i", "j", "k", "l", "m",
     "n", "o", "p", "q", "r", "s", "t", "u", "v", "w", "x", "y", "z" >>

DigitSeq == << "0", "1", "2", "3", "4", "5", "6", "7", "8", "9" >>

Range(s) == { s[i] : i \in DOMAIN s }

UpperChars == Range(UpperSeq)

LowerChars == Range(LowerSeq)

DigitChars == Range(DigitSeq)

RECURSIVE Str(_)
\* the Python string a character sequence spells
Str(cs) == IF cs = << >> THEN "" ELSE Head(cs) \o Str(Tail(cs))

\* str.lower() on one character (only ASCII reaches it in this program)
LowerChar(c) ==
  IF c \in UpperChars
    THEN LowerSeq[CHOOSE i \in DOMAIN UpperSeq : UpperSeq[i] = c]
    ELSE c

\* str.lower()
Lower(cs) == [ i \in DOMAIN cs |-> LowerChar(cs[i]) ]

(***************************************************************************)
(* objects.py: the identifier normalizer.                                  *)
(***************************************************************************)
\* __LOCAL_NAME_PATTERN = [^A-Za-z0-9\_] : the characters it does NOT match
LOCAL_NAME_KEPT == UpperChars \cup LowerChars \cup DigitChars \cup { "_" }

\* __LOCAL_NAME_PATTERN.sub("_", value): each matching character becomes "_"
LocalNameSub(cs) ==
  [ i \in DOMAIN cs |-> IF cs[i] \in LOCAL_NAME_KEPT THEN cs[i] ELSE "_" ]

\* a slip: the substitution done, the lowercasing forgotten
ConvertToLocalName_NoLower(value) == LocalNameSub(value)

\* TerraformObject._convert_to_local_name
ConvertToLocalName(value) == Lower(LocalNameSub(value))

RECURSIVE CamelSubFrom(_, _)
\* __CAMEL_CASE_PATTERN = (?<!^)(?=[A-Z]) matches the empty string at every
\* position that is not the start and is followed by an uppercase letter;
\* sub("_", key) puts "_" at each match.  i is the position being scanned.
CamelSubFrom(cs, i) ==
  IF i > Len(cs) THEN << >>
  ELSE (IF i > 1 /\ cs[i] \in UpperChars THEN << "_", cs[i] >> ELSE << cs[i] >>)
       \o CamelSubFrom(cs, i + 1)

CamelSub(cs) == CamelSubFrom(cs, 1)

\* a slip: the lookbehind (?<!^) left out, so a leading capital gets "_" too
ConvertKey_NoLookbehind(key) ==
  Lower((IF key # << >> /\ key[1] \in UpperChars THEN << "_" >> ELSE << >>)
        \o CamelSub(key))

\* TerraformObject._attributes.convert_key
ConvertKey(key) == Lower(CamelSub(key))

(***************************************************************************)
(* Python values.  Every value carries its type in field t, so that values *)
(* of different types can be compared.                                     *)
(***************************************************************************)
None == [ t |-> "none" ]

\* str: a character sequence
S(cs) == [ t |-> "str", v |-> cs ]

\* bool
B(b) == [ t |-> "bool", v |-> b ]

\* int
N(n) == [ t |-> "int", v |-> n ]

\* list
L(seq) == [ t |-> "list", v |-> seq ]

\* dict: a function from keys (TLA+ strings) to values
M(f) == [ t |-> "dict", v |-> f ]

\* the empty dict, dict()
EmptyMap == [ k \in {} |-> None ]

\* bool(value), the test of `if value` and of `a or b`
Truthy(x) ==
  CASE x.t = "none" -> FALSE
    [] x.t = "bool" -> x.v
    [] x.t = "int"  -> x.v # 0
    [] x.t = "str"  -> x.v # << >>
    [] x.t = "list" -> x.v # << >>
    [] x.t = "dict" -> DOMAIN x.v # {}
    [] OTHER        -> TRUE

(***************************************************************************)
(* __init__.py: always_merger.merge(base, nxt), the document assembler.    *)
(* always_merger is deepmerge's Merger([(list, "append"), (dict, "merge"), *)
(* (set, "union")], ["override"], ["override"]): two dicts merge key by    *)
(* key, two lists are concatenated, anything else is replaced by nxt.      *)
(***************************************************************************)
RECURSIVE Merge_ListOverride(_, _)
\* a merger whose list strategy is "override" instead of "append"
Merge_ListOverride(base, nxt) ==
  IF base.t = "dict" /\ nxt.t = "dict"
    THEN M([ k \in DOMAIN base.v \cup DOMAIN nxt.v |->
               IF k \notin DOMAIN nxt.v THEN base.v[k]
               ELSE IF k \notin DOMAIN base.v THEN nxt.v[k]
               ELSE Merge_ListOverride(base.v[k], nxt.v[k]) ])
    ELSE nxt

\* a merger that replaces a colliding key instead of descending (dict.update)
Merge_Shallow(base, nxt) ==
  IF base.t = "dict" /\ nxt.t = "dict"
    THEN M([ k \in DOMAIN base.v \cup DOMAIN nxt.v |->
               IF k \in DOMAIN nxt.v THEN nxt.v[k] ELSE base.v[k] ])
    ELSE nxt

RECURSIVE Merge(_, _)
Merge(base, nxt) ==
  IF base.t = "dict" /\ nxt.t = "dict"
    THEN M([ k \in DOMAIN base.v \cup DOMAIN nxt.v |->
               IF k \notin DOMAIN nxt.v THEN base.v[k]
               ELSE IF k \notin DOMAIN base.v THEN nxt.v[k]
               ELSE Merge(base.v[k], nxt.v[k]) ])
  ELSE IF base.t = "list" /\ nxt.t = "list"
    THEN L(base.v \o nxt.v)
  ELSE nxt

(***************************************************************************)
(* Spelling: the characters of every string the model writes as a literal  *)
(* (payload keys, class names, the names of the upstream entities).        *)
(***************************************************************************)
Spell ==
     ("name" :> << "n", "a", "m", "e" >>)
  @@ ("description" :> << "d", "e", "s", "c", "r", "i", "p", "t", "i", "o",
         "n" >>)
  @@ ("requirements" :> << "r", "e", "q", "u", "i", "r", "e", "m", "e", "n",
         "t", "s" >>)
  @@ ("role" :> << "r", "o", "l", "e" >>)
  @@ ("username" :> << "u", "s", "e", "r", "n", "a", "m", "e" >>)
  @@ ("email" :> << "e", "m", "a", "i", "l" >>)
  @@ ("status" :> << "s", "t", "a", "t", "u", "s" >>)
  @@ ("account" :> << "a", "c", "c", "o", "u", "n", "t" >>)
  @@ ("tableAccess" :> << "t", "a", "b", "l", "e", "A", "c", "c", "e", "s",
         "s" >>)
  @@ ("sendingTenant" :> << "s", "e", "n", "d", "i", "n", "g", "T", "e", "n",
         "a", "n", "t" >>)
  @@ ("receivingApp" :> << "r", "e", "c", "e", "i", "v", "i", "n", "g", "A",
         "p", "p" >>)
  @@ ("receivingTenant" :> << "r", "e", "c", "e", "i", "v", "i", "n", "g",
         "T", "e", "n", "a", "n", "t" >>)
  @@ ("loggingLevel" :> << "l", "o", "g", "g", "i", "n", "g", "L", "e", "v",
         "e", "l" >>)
  @@ ("sequentialProcessing" :> << "s", "e", "q", "u", "e", "n", "t", "i",
         "a", "l", "P", "r", "o", "c", "e", "s", "s", "i", "n", "g" >>)
  @@ ("maxReceiveCount" :> << "m", "a", "x", "R", "e", "c", "e", "i", "v",
         "e", "C", "o", "u", "n", "t" >>)
  @@ ("scheduleExpression" :> << "s", "c", "h", "e", "d", "u", "l", "e", "E",
         "x", "p", "r", "e", "s", "s", "i", "o", "n" >>)
  @@ ("mounts" :> << "m", "o", "u", "n", "t", "s" >>)
  @@ ("ports" :> << "p", "o", "r", "t", "s" >>)
  @@ ("imageUri" :> << "i", "m", "a", "g", "e", "U", "r", "i" >>)
  @@ ("mountRequirements" :> << "m", "o", "u", "n", "t", "R", "e", "q", "u",
         "i", "r", "e", "m", "e", "n", "t", "s" >>)
  @@ ("portRequirements" :> << "p", "o", "r", "t", "R", "e", "q", "u", "i",
         "r", "e", "m", "e", "n", "t", "s" >>)
  @@ ("defaultLeaseSeconds" :> << "d", "e", "f", "a", "u", "l", "t", "L",
         "e", "a", "s", "e", "S", "e", "c", "o", "n", "d", "s" >>)
  @@ ("deliverRetries" :> << "d", "e", "l", "i", "v", "e", "r", "R", "e",
         "t", "r", "i", "e", "s" >>)
  @@ ("deliveryRetries" :> << "d", "e", "l", "i", "v", "e", "r", "y", "R",
         "e", "t", "r", "i", "e", "s" >>)
  @@ ("maxLeaseSeconds" :> << "m", "a", "x", "L", "e", "a", "s", "e", "S",
         "e", "c", "o", "n", "d", "s" >>)
  @@ ("signatureAlgorithm" :> << "s", "i", "g", "n", "a", "t", "u", "r", "e",
         "A", "l", "g", "o", "r", "i", "t", "h", "m" >>)
  @@ ("subscriptionSecurity" :> << "s", "u", "b", "s", "c", "r", "i", "p",
         "t", "i", "o", "n", "S", "e", "c", "u", "r", "i", "t", "y" >>)
  @@ ("source" :> << "s", "o", "u", "r", "c", "e" >>)
  @@ ("target" :> << "t", "a", "r", "g", "e", "t" >>)
  @@ ("containerPort" :> << "c", "o", "n", "t", "a", "i", "n", "e", "r", "P",
         "o", "r", "t" >>)
  @@ ("hostAddress" :> << "h", "o", "s", "t", "A", "d", "d", "r", "e", "s",
         "s" >>)
  @@ ("hostPort" :> << "h", "o", "s", "t", "P", "o", "r", "t" >>)
  @@ ("protocol" :> << "p", "r", "o", "t", "o", "c", "o", "l" >>)
  @@ ("receiveMessageType" :> << "r", "e", "c", "e", "i", "v", "e", "M", "e",
         "s", "s", "a", "g", "e", "T", "y", "p", "e" >>)
  @@ ("ApiAuthenticatorFunction" :> << "A", "p", "i", "A", "u", "t", "h",
         "e", "n", "t", "i", "c", "a", "t", "o", "r", "F", "u", "n", "c",
         "t", "i", "o", "n" >>)
  @@ ("ApiUser" :> << "A", "p", "i", "U", "s", "e", "r" >>)
  @@ ("BitmapRouterNode" :> << "B", "i", "t", "m", "a", "p", "R", "o", "u",
         "t", "e", "r", "N", "o", "d", "e" >>)
  @@ ("BitmapperFunction" :> << "B", "i", "t", "m", "a", "p", "p", "e", "r",
         "F", "u", "n", "c", "t", "i", "o", "n" >>)
  @@ ("CrossAccountApp" :> << "C", "r", "o", "s", "s", "A", "c", "c", "o",
         "u", "n", "t", "A", "p", "p" >>)
  @@ ("CrossTenantReceivingApp" :> << "C", "r", "o", "s", "s", "T", "e", "n",
         "a", "n", "t", "R", "e", "c", "e", "i", "v", "i", "n", "g", "A",
         "p", "p" >>)
  @@ ("CrossTenantReceivingNode" :> << "C", "r", "o", "s", "s", "T", "e",
         "n", "a", "n", "t", "R", "e", "c", "e", "i", "v", "i", "n", "g",
         "N", "o", "d", "e" >>)
  @@ ("CrossTenantSendingApp" :> << "C", "r", "o", "s", "s", "T", "e", "n",
         "a", "n", "t", "S", "e", "n", "d", "i", "n", "g", "A", "p", "p" >>)
  @@ ("CrossTenantSendingNode" :> << "C", "r", "o", "s", "s", "T", "e", "n",
         "a", "n", "t", "S", "e", "n", "d", "i", "n", "g", "N", "o", "d",
         "e" >>)
  @@ ("Edge" :> << "E", "d", "g", "e" >>)
  @@ ("ExternalApp" :> << "E", "x", "t", "e", "r", "n", "a", "l", "A", "p",
         "p" >>)
  @@ ("ExternalNode" :> << "E", "x", "t", "e", "r", "n", "a", "l", "N", "o",
         "d", "e" >>)
  @@ ("FilesDotComWebhookNode" :> << "F", "i", "l", "e", "s", "D", "o", "t",
         "C", "o", "m", "W", "e", "b", "h", "o", "o", "k", "N", "o", "d",
         "e" >>)
  @@ ("KmsKey" :> << "K", "m", "s", "K", "e", "y" >>)
  @@ ("LoadBalancerNode" :> << "L", "o", "a", "d", "B", "a", "l", "a", "n",
         "c", "e", "r", "N", "o", "d", "e" >>)
  @@ ("ManagedApp" :> << "M", "a", "n", "a", "g", "e", "d", "A", "p", "p" >>)
  @@ ("ManagedNode" :> << "M", "a", "n", "a", "g", "e", "d", "N", "o", "d",
         "e" >>)
  @@ ("ManagedNodeType" :> << "M", "a", "n", "a", "g", "e", "d", "N", "o",
         "d", "e", "T", "y", "p", "e" >>)
  @@ ("MessageType" :> << "M", "e", "s", "s", "a", "g", "e", "T", "y", "p",
         "e" >>)
  @@ ("ProcessorFunction" :> << "P", "r", "o", "c", "e", "s", "s", "o", "r",
         "F", "u", "n", "c", "t", "i", "o", "n" >>)
  @@ ("ProcessorNode" :> << "P", "r", "o", "c", "e", "s", "s", "o", "r", "N",
         "o", "d", "e" >>)
  @@ ("Tenant" :> << "T", "e", "n", "a", "n", "t" >>)
  @@ ("TenantUser" :> << "T", "e", "n", "a", "n", "t", "U", "s", "e", "r" >>)
  @@ ("TimerNode" :> << "T", "i", "m", "e", "r", "N", "o", "d", "e" >>)
  @@ ("WebhookNode" :> << "W", "e", "b", "h", "o", "o", "k", "N", "o", "d",
         "e" >>)
  @@ ("WebSubHubNode" :> << "W", "e", "b", "S", "u", "b", "H", "u", "b", "N",
         "o", "d", "e" >>)
  @@ ("AlertEmitterNode" :> << "A", "l", "e", "r", "t", "E", "m", "i", "t",
         "t", "e", "r", "N", "o", "d", "e" >>)
  @@ ("AppChangeReceiverNode" :> << "A", "p", "p", "C", "h", "a", "n", "g",
         "e", "R", "e", "c", "e", "i", "v", "e", "r", "N", "o", "d", "e" >>)
  @@ ("AppChangeRouterNode" :> << "A", "p", "p", "C", "h", "a", "n", "g",
         "e", "R", "o", "u", "t", "e", "r", "N", "o", "d", "e" >>)
  @@ ("AuditEmitterNode" :> << "A", "u", "d", "i", "t", "E", "m", "i", "t",
         "t", "e", "r", "N", "o", "d", "e" >>)
  @@ ("ChangeEmitterNode" :> << "C", "h", "a", "n", "g", "e", "E", "m", "i",
         "t", "t", "e", "r", "N", "o", "d", "e" >>)
  @@ ("DeadLetterEmitterNode" :> << "D", "e", "a", "d", "L", "e", "t", "t",
         "e", "r", "E", "m", "i", "t", "t", "e", "r", "N", "o", "d", "e" >>)
  @@ ("LogEmitterNode" :> << "L", "o", "g", "E", "m", "i", "t", "t", "e",
         "r", "N", "o", "d", "e" >>)
  @@ ("FutureNode" :> << "F", "u", "t", "u", "r", "e", "N", "o", "d", "e" >>)
  @@ ("APIUser" :> << "A", "P", "I", "U", "s", "e", "r" >>)
  @@ ("Mt-1" :> << "M", "t", "-", "1" >>)
  @@ ("echo.json" :> << "e", "c", "h", "o", ".", "j", "s", "o", "n" >>)
  @@ ("Fn.1" :> << "F", "n", ".", "1" >>)
  @@ ("sys-fn" :> << "s", "y", "s", "-", "f", "n" >>)
  @@ ("Type A" :> << "T", "y", "p", "e", " ", "A" >>)
  @@ ("sys.type" :> << "s", "y", "s", ".", "t", "y", "p", "e" >>)
  @@ ("Key 1" :> << "K", "e", "y", " ", "1" >>)
  @@ ("App-1" :> << "A", "p", "p", "-", "1" >>)
  @@ ("App 2" :> << "A", "p", "p", " ", "2" >>)
  @@ ("n1" :> << "n", "1" >>)
  @@ ("n2" :> << "n", "2" >>)
  @@ ("N-3" :> << "N", "-", "3" >>)
  @@ ("alerts" :> << "a", "l", "e", "r", "t", "s" >>)
  @@ ("ghost" :> << "g", "h", "o", "s", "t" >>)
  @@ ("d" :> << "d" >>)
  @@ ("x" :> << "x" >>)
  @@ ("api" :> << "a", "p", "i" >>)
  @@ ("a@b.c" :> << "a", "@", "b", ".", "c" >>)
  @@ ("owner" :> << "o", "w", "n", "e", "r" >>)
  @@ ("admin" :> << "a", "d", "m", "i", "n" >>)
  @@ ("current" :> << "c", "u", "r", "r", "e", "n", "t" >>)
  @@ ("{}" :> << "{", "}" >>)
  @@ ("{\"k\": 1}" :> << "{", "\"", "k", "\"", ":", " ", "1", "}" >>)
  @@ ("[\"x\"]" :> << "[", "\"", "x", "\"", "]" >>)
  @@ ("Key 2" :> << "K", "e", "y", " ", "2" >>)
  @@ ("n9" :> << "n", "9" >>)
  @@ ("FutureFunction" :> << "F", "u", "t", "u", "r", "e", "F", "u", "n",
         "c", "t", "i", "o", "n" >>)
  @@ ("NodeResource" :> << "N", "o", "d", "e", "R", "e", "s", "o", "u", "r",
         "c", "e" >>)
  @@ ("FunctionResource" :> << "F", "u", "n", "c", "t", "i", "o", "n", "R",
         "e", "s", "o", "u", "r", "c", "e" >>)
  @@ ("NodeDataSource" :> << "N", "o", "d", "e", "D", "a", "t", "a", "S",
         "o", "u", "r", "c", "e" >>)
  @@ ("FunctionDataSource" :> << "F", "u", "n", "c", "t", "i", "o", "n", "D",
         "a", "t", "a", "S", "o", "u", "r", "c", "e" >>)
  @@ ("Api-User.1" :> << "A", "p", "i", "-", "U", "s", "e", "r", ".", "1" >>)
  @@ ("n-1" :> << "n", "-", "1" >>)
  @@ ("N 1" :> << "N", " ", "1" >>)

\* the upstream string w
W(w) == S(Spell[w])

\* a string the program builds, kept whole
Text(s) == [ t |-> "text", v |-> s ]

\* str(value) as an f-string renders it
FStr(x) == IF x.t = "str" THEN x.v ELSE << "N", "o", "n", "e" >>

\* d[k] = v on a dict
Put(d, k, v) == [ x \in DOMAIN d \cup { k } |-> IF x = k THEN v ELSE d[x] ]

\* self.get(key)
Get(data, key) == IF key \in DOMAIN data THEN data[key] ELSE None

\* a raised exception
Err(exc, arg) == [ ok |-> FALSE, err |-> [ exc |-> exc, args |-> << arg >> ] ]

Ok(v) == [ ok |-> TRUE, v |-> v ]

\* value[key] on a payload value: a dict, or something that is not one
GetItem(x, key) ==
  IF x.t # "dict" THEN Err("TypeError", Text("not subscriptable"))
  ELSE IF key \notin DOMAIN x.v THEN Err("KeyError", Text(key))
  ELSE Ok(x.v[key])

\* self[key]["name"], the natural key a cross-reference field carries
RefName(data, key) ==
  IF key \notin DOMAIN data THEN Err("KeyError", Text(key))
  ELSE GetItem(data[key], "name")

(***************************************************************************)
(* The classes of resources.py and data_sources.py.  An object is the      *)
(* module of its class ("resource" or "data"), the class name and the      *)
(* payload it wraps (UserDict.data); NoneObj is Python's None.             *)
(***************************************************************************)
NoneObj == [ module |-> "none" ]

Obj(module, class, data) == [ module |-> module, class |-> class, data |-> data ]

AppResources ==
  { "CrossAccountApp", "CrossTenantReceivingApp", "CrossTenantSendingApp",
    "ExternalApp", "ManagedApp" }

\* FunctionResource, which has every abstract member defined, and its subclasses
FunctionResources ==
  { "FunctionResource", "ApiAuthenticatorFunction", "BitmapperFunction",
    "ProcessorFunction" }

NodeResources ==
  { "BitmapRouterNode", "CrossTenantReceivingNode", "CrossTenantSendingNode",
    "ExternalNode", "FilesDotComWebhookNode", "LoadBalancerNode",
    "ManagedNode", "ProcessorNode", "TimerNode", "WebhookNode",
    "WebSubHubNode" }

ConfigResources ==
  { "BitmapRouterNode", "CrossAccountApp", "CrossTenantSendingNode",
    "ExternalApp", "ExternalNode", "ManagedApp", "ManagedNode",
    "ProcessorNode", "Tenant", "WebhookNode", "WebSubHubNode" }

\* the classes of resources.py that can be instantiated
ResourceTypes ==
  AppResources \cup FunctionResources \cup NodeResources \cup
  { "ApiUser", "Edge", "KmsKey", "ManagedNodeType", "MessageType", "Tenant",
    "TenantUser" }

\* NodeDataSource, which has every abstract member defined, and its subclasses
NodeDataSources ==
  { "NodeDataSource", "AlertEmitterNode", "AppChangeReceiverNode", "AppChangeRouterNode",
    "AuditEmitterNode", "ChangeEmitterNode", "CrossTenantReceivingNode",
    "DeadLetterEmitterNode", "LogEmitterNode" }

\* FunctionDataSource, which has every abstract member defined, and its subclasses
FunctionDataSources ==
  { "FunctionDataSource", "ApiAuthenticatorFunction", "BitmapperFunction",
    "ProcessorFunction" }

\* the classes of data_sources.py that can be instantiated
DataSourceTypes ==
  NodeDataSources \cup FunctionDataSources \cup { "ManagedNodeType", "MessageType" }

\* the classes among the module's globals that leave an abstract member of
\* TerraformObject undefined: cls(data) raises TypeError
AbstractTypes(module) ==
  IF module = "resource"
    THEN { "TerraformObject", "Resource", "AppResource", "NodeResource", "ConfigResource" }
    ELSE { "TerraformObject", "DataSource" }

BucketNames ==
  { "APPS", "FUNCTIONS", "KMS_KEYS", "MANAGED_NODE_TYPES", "MESSAGE_TYPES", "NODES" }

\* the bucket the class's __init__ registers the object in ("none": no __init__)
Bucket(module, class) ==
  IF module = "resource"
    THEN CASE class \in AppResources      -> "APPS"
           [] class \in FunctionResources -> "FUNCTIONS"
           [] class \in NodeResources     -> "NODES"
           [] class = "KmsKey"            -> "KMS_KEYS"
           [] class = "ManagedNodeType"   -> "MANAGED_NODE_TYPES"
           [] class = "MessageType"       -> "MESSAGE_TYPES"
           [] OTHER                       -> "none"
    ELSE CASE class \in NodeDataSources     -> "NODES"
           [] class \in FunctionDataSources -> "FUNCTIONS"
           [] class = "ManagedNodeType"     -> "MANAGED_NODE_TYPES"
           [] class = "MessageType"         -> "MESSAGE_TYPES"
           [] OTHER                         -> "none"

\* a class whose __init__ forgets to register (a subclass without the bucket line)
Construct_NoRegister(module, class, data, reg) ==
  [ ok |-> TRUE, obj |-> Obj(module, class, data), reg |-> reg ]

\* cls(data): UserDict.__init__, then BUCKET[self["name"]] = self
Construct(module, class, data, reg) ==
  LET bucket == Bucket(module, class)
      self   == Obj(module, class, data)
  IN  IF bucket = "none" THEN [ ok |-> TRUE, obj |-> self, reg |-> reg ]
      ELSE IF "name" \notin DOMAIN data THEN Err("KeyError", Text("name"))
      ELSE [ ok |-> TRUE, obj |-> self,
             reg |-> [ reg EXCEPT ![bucket] = Put(@, data["name"], self) ] ]

\* factory(data) of the module: cls = globals().get(data["__typename"]), then
\* cls(data) if cls else None.  Of the names in the module's globals the
\* classes are modelled; the imports, the buckets and factory itself are
\* names no listing tried here carries.
Factory(module, data, reg) ==
  IF "__typename" \notin DOMAIN data THEN Err("KeyError", Text("__typename"))
  ELSE LET tn    == data["__typename"]
           types == IF module = "resource" THEN ResourceTypes ELSE DataSourceTypes
       IN  IF tn.t = "str" /\ Str(tn.v) \in types
             THEN Construct(module, Str(tn.v), data, reg)
           ELSE IF tn.t = "str" /\ Str(tn.v) \in AbstractTypes(module)
             THEN Err("TypeError", Text("Can't instantiate abstract class"))
           ELSE [ ok |-> TRUE, obj |-> NoneObj, reg |-> reg ]

(***************************************************************************)
(* objects.py: TerraformObject.                                            *)
(***************************************************************************)
\* _attribute_keys of each class: << required, optional >>
AttributeKeys(module, class) ==
  IF module = "resource"
    THEN CASE class \in FunctionResources ->
                << << "description", "name" >>, << "requirements" >> >>
           [] class = "ApiUser" -> << << "role" >>, << "description" >> >>
           [] class \in { "BitmapRouterNode", "WebhookNode" } ->
                << << "name" >>, << "description", "loggingLevel", "requirements" >> >>
           [] class = "CrossAccountApp" ->
                << << "account", "name" >>, << "description", "tableAccess" >> >>
           [] class = "CrossTenantReceivingApp" ->
                << << "name", "sendingTenant" >>, << "description" >> >>
           [] class = "CrossTenantReceivingNode" -> << << >>, << >> >>
           [] class = "CrossTenantSendingApp" ->
                << << "name", "receivingApp", "receivingTenant" >>, << "description" >> >>
           [] class \in { "CrossTenantSendingNode", "ProcessorNode" } ->
                << << "name" >>,
                   << "description", "loggingLevel", "requirements",
                      "sequentialProcessing" >> >>
           [] class = "Edge" -> << << >>, << "description", "maxReceiveCount" >> >>
           [] class \in { "ExternalApp", "ManagedApp" } ->
                << << "name" >>, << "description", "tableAccess" >> >>
           [] class \in { "ExternalNode", "FilesDotComWebhookNode", "KmsKey",
                          "LoadBalancerNode" } ->
                << << "name" >>, << "description" >> >>
           [] class = "ManagedNode" ->
                << << "name" >>, << "description", "loggingLevel", "mounts", "ports" >> >>
           [] class = "ManagedNodeType" ->
                << << "description", "imageUri", "name" >>,
                   << "mountRequirements", "portRequirements" >> >>
           [] class = "MessageType" ->
                << << "description", "name" >>, << "requirements" >> >>
           [] class = "Tenant" -> << << >>, << "description" >> >>
           [] class = "TenantUser" -> << << "email", "role" >>, << "status" >> >>
           [] class = "TimerNode" ->
                << << "name", "scheduleExpression" >>, << "description" >> >>
           [] class = "WebSubHubNode" ->
                << << "name" >>,
                   << "defaultLeaseSeconds", "deliverRetries", "description",
                      "maxLeaseSeconds", "loggingLevel", "requirements",
                      "signatureAlgorithm", "subscriptionSecurity" >> >>
    ELSE CASE class \in NodeDataSources -> << << >>, << >> >>
           [] OTHER -> << << "name" >>, << >> >>

\* convert_key on a key of the payload
ConvKey(key) == Str(ConvertKey(Spell[key]))

RECURSIVE ConvertValue(_)
\* _attributes.convert_value: the keys of dicts, also inside lists, converted
ConvertValue(value) ==
  IF value.t = "list"
    THEN L([ i \in DOMAIN value.v |-> ConvertValue(value.v[i]) ])
  ELSE IF value.t = "dict"
    THEN M([ ck \in { ConvKey(k) : k \in DOMAIN value.v } |->
               ConvertValue(value.v[CHOOSE k \in DOMAIN value.v : ConvKey(k) = ck]) ])
  ELSE value

RECURSIVE CopyKeys(_, _, _, _)
\* the two loops of TerraformObject._attributes: attributes[convert_key(key)] =
\* convert_value(self[key]) for the required keys, and for the optional ones
\* when self.get(key) is not None
CopyKeys(data, keys, required, attributes) ==
  IF keys = << >> THEN Ok(attributes)
  ELSE LET key == Head(keys)
       IN  IF required /\ key \notin DOMAIN data
             THEN Err("KeyError", Text(key))
           ELSE IF ~required /\ Get(data, key).t = "none"
             THEN CopyKeys(data, Tail(keys), required, attributes)
           ELSE CopyKeys(data, Tail(keys), required,
                         Put(attributes, ConvKey(key), ConvertValue(data[key])))

\* a slip: a required key that is absent is skipped like an optional one
BaseAttributes_SkipMissing(self) ==
  LET keys == AttributeKeys(self.module, self.class)
      present == SelectSeq(keys[1], LAMBDA k : k \in DOMAIN self.data)
  IN  CopyKeys(self.data, keys[2], FALSE,
               CopyKeys(self.data, present, TRUE, EmptyMap).v)

\* TerraformObject._attributes
BaseAttributes(self) ==
  LET keys == AttributeKeys(self.module, self.class)
      req  == CopyKeys(self.data, keys[1], TRUE, EmptyMap)
  IN  IF ~req.ok THEN req ELSE CopyKeys(self.data, keys[2], FALSE, req.v)

\* TerraformObject._object_class
ObjectClass(self) == self.module

\* "echostream_" + __CAMEL_CASE_PATTERN.sub("_", cls.__name__).lower(), for
\* every class that can be instantiated
ObjectTypes ==
  [ c \in ResourceTypes \cup DataSourceTypes |->
      "echostream_" \o Str(Lower(CamelSub(Spell[c]))) ]

\* TerraformObject._object_type
ObjectType(self) == ObjectTypes[self.class]

\* _convert_to_local_name(value): re.sub needs a str
LocalNameOf(r) ==
  IF ~r.ok THEN r
  ELSE IF r.v.t # "str" THEN Err("TypeError", Text("expected string"))
  ELSE Ok(ConvertToLocalName(r.v.v))

\* data[key] as self[key] raises
Item(data, key) ==
  IF key \in DOMAIN data THEN Ok(data[key]) ELSE Err("KeyError", Text(key))

\* a slip: the identity of an edge built from its target alone
EdgeIdentity_TargetOnly(self) ==
  LET tgt == RefName(self.data, "target")
  IN  IF ~tgt.ok THEN tgt ELSE Ok(S(FStr(tgt.v)))

\* Edge.identity: f'{self["source"]["name"]}|{self["target"]["name"]}'
EdgeIdentity(self) ==
  LET src == RefName(self.data, "source")
      tgt == RefName(self.data, "target")
  IN  IF ~src.ok THEN src
      ELSE IF ~tgt.ok THEN tgt
      ELSE Ok(S(FStr(src.v) \o << "|" >> \o FStr(tgt.v)))

\* a slip: Tenant without its override of identity
Identity_NoTenant(self) ==
  CASE self.class = "ApiUser"    -> Item(self.data, "username")
    [] self.class = "Edge"       -> EdgeIdentity(self)
    [] self.class = "TenantUser" -> Item(self.data, "email")
    [] OTHER                     -> Item(self.data, "name")

\* Resource.identity and its overrides (ApiUser, Edge, Tenant, TenantUser)
Identity(self) ==
  CASE self.class = "ApiUser"    -> Item(self.data, "username")
    [] self.class = "Edge"       -> EdgeIdentity(self)
    [] self.class = "Tenant"     -> Ok(S(<< >>))
    [] self.class = "TenantUser" -> Item(self.data, "email")
    [] OTHER                     -> Item(self.data, "name")

\* _local_name of each class, as characters
LocalName(self) ==
  IF self.module = "resource"
    THEN CASE self.class = "ApiUser" ->
                LET id == Identity(self)
                IN  IF ~id.ok THEN id
                    ELSE Ok(Lower(<< "_" >> \o FStr(id.v) \o << "_" >>))
           [] self.class = "Tenant" -> Ok(Spell["current"])
           [] OTHER -> LocalNameOf(Identity(self))
    ELSE CASE self.class = "AppChangeReceiverNode" ->
                LocalNameOf(RefName(self.data, "app"))
           [] self.class \in NodeDataSources \ { "AppChangeReceiverNode" } ->
                Ok(Spell["current"])
           [] OTHER -> LocalNameOf(Item(self.data, "name"))

\* a slip: the data source's address without its "data." prefix
Address_NoDataPrefix(self, ln) ==
  IF ~ln.ok THEN ln ELSE Ok(ObjectType(self) \o "." \o Str(ln.v))

\* f"{self._object_type}.{self._local_name}" (Resource.address) and
\* f"data.{self._object_type}.{self._local_name}" (DataSource.address), ln
\* being what self._local_name gives
AddressWith(self, ln) ==
  IF ~ln.ok THEN ln
  ELSE IF self.module = "resource"
    THEN Ok(ObjectType(self) \o "." \o Str(ln.v))
    ELSE Ok("data." \o ObjectType(self) \o "." \o Str(ln.v))

\* Resource.address and DataSource.address
Address(self) == AddressWith(self, LocalName(self))

\* TerraformObjectReference(obj)
Reference(obj) == [ t |-> "ref", obj |-> obj ]

\* a slip: the reference encodes to the target's name, not to its address
ReferenceEncode_RawName(ref) == Str(FStr(Get(ref.obj.data, "name")))

\* TerraformObjectReference.encode
ReferenceEncode(ref) == "${" \o Address(ref.obj).v \o ".name" \o "}"

\* Resource.__artifacts_path
ArtifactsPath(self) ==
  "artifacts/" \o ObjectType(self) \o "/" \o Str(LocalName(self).v)

\* path.join(self.__artifacts_path, file_name)
ArtifactFile(self, file_name) == ArtifactsPath(self) \o "/" \o file_name

\* a slip: the token gives the path without ${path.module}
File_NoModule(self, file_name) ==
  Text("${file(\"" \o ArtifactFile(self, file_name) \o "\")}")

\* Resource._file
File(self, file_name) ==
  Text("${file(\"${path.module}/" \o ArtifactFile(self, file_name) \o "\")}")

(***************************************************************************)
(* resources.py and data_sources.py: what each class adds to _attributes   *)
(* and to encode, as the statements of its method chain in execution       *)
(* order (super() first).                                                  *)
(*   ref         attributes[attr] = TerraformObjectReference(BUCKET[name]) *)
(*               with name = self[key]["name"]; opt: only if self.get(key) *)
(*               is true; kw: the call passes attr="name" as well          *)
(*   file_always attributes[attr] = self._file(file)                       *)
(*   file_if     the same, if self.get(key) is true                        *)
(*   write_*     with self._open_artifact(file) as f: f.write(self[key])   *)
(***************************************************************************)
RefTo(attr, bucket, key, opt, kw) ==
  [ op |-> "ref", attr |-> attr, bucket |-> bucket, key |-> key, opt |-> opt, kw |-> kw ]

FileAlways(attr, file) == [ op |-> "file_always", attr |-> attr, file |-> file ]

FileIf(attr, file, key) == [ op |-> "file_if", attr |-> attr, file |-> file, key |-> key ]

WriteAlways(file, key) == [ op |-> "write_always", file |-> file, key |-> key ]

WriteIf(file, key) == [ op |-> "write_if", file |-> file, key |-> key ]

\* FunctionResource._attributes
FunctionAttributes ==
  << FileAlways("code", "code.py"), FileIf("readme", "readme.md", "readme") >>

\* ConfigResource._attributes
ConfigAttributes == << FileIf("config", "config.json", "config") >>

\* the statements of cls._attributes after TerraformObject._attributes
AttributesProgram(module, class) ==
  IF module = "resource"
    THEN CASE class \in { "FunctionResource", "ApiAuthenticatorFunction" } ->
                FunctionAttributes
           [] class = "BitmapperFunction" ->
                FunctionAttributes \o
                << RefTo("argument_message_type", "MESSAGE_TYPES",
                         "argumentMessageType", FALSE, FALSE) >>
           [] class = "ProcessorFunction" ->
                FunctionAttributes \o
                << RefTo("argument_message_type", "MESSAGE_TYPES",
                         "argumentMessageType", FALSE, FALSE),
                   RefTo("return_message_type", "MESSAGE_TYPES",
                         "returnMessageType", TRUE, FALSE) >>
           [] class = "BitmapRouterNode" ->
                ConfigAttributes \o
                << RefTo("receive_message_type", "MESSAGE_TYPES",
                         "receiveMessageType", FALSE, FALSE),
                   FileIf("inline_bitmapper", "inline_bitmapper.py", "inlineBitmapper"),
                   RefTo("managed_bitmapper", "FUNCTIONS", "managedBitmapper", TRUE, FALSE),
                   [ op |-> "route_table" ] >>
           [] class \in { "CrossAccountApp", "ExternalApp", "ManagedApp", "Tenant" } ->
                ConfigAttributes
           [] class = "CrossTenantSendingNode" ->
                ConfigAttributes \o
                << RefTo("app", "APPS", "app", FALSE, FALSE),
                   RefTo("receive_message_type", "MESSAGE_TYPES",
                         "receiveMessageType", FALSE, FALSE),
                   FileIf("inline_processor", "inline_processor.py", "inlineProcessor"),
                   RefTo("managed_processor", "FUNCTIONS", "managedProcessor", TRUE, TRUE),
                   RefTo("send_message_type", "MESSAGE_TYPES", "sendMessageType", TRUE, TRUE),
                   [ op |-> "sequential_default" ] >>
           [] class = "Edge" ->
                << RefTo("source", "NODES", "source", FALSE, FALSE),
                   RefTo("target", "NODES", "target", FALSE, FALSE),
                   RefTo("kmskey", "KMS_KEYS", "kmsKey", TRUE, TRUE) >>
           [] class = "ExternalNode" ->
                ConfigAttributes \o
                << RefTo("app", "APPS", "app", FALSE, FALSE),
                   RefTo("receive_message_type", "MESSAGE_TYPES",
                         "receiveMessageType", TRUE, FALSE),
                   RefTo("send_message_type", "MESSAGE_TYPES",
                         "sendMessageType", TRUE, FALSE) >>
           [] class = "LoadBalancerNode" ->
                << RefTo("receive_message_type", "MESSAGE_TYPES",
                         "receiveMessageType", FALSE, FALSE) >>
           [] class = "ManagedNode" ->
                ConfigAttributes \o
                << RefTo("app", "APPS", "app", FALSE, FALSE),
                   RefTo("managed_node_type", "MANAGED_NODE_TYPES",
                         "managedNodeType", FALSE, FALSE) >>
           [] class = "ManagedNodeType" ->
                << [ op |-> "tuple" ],
                   FileIf("config_template", "config_template.json", "configTemplate"),
                   FileIf("readme", "readme.md", "readme"),
                   RefTo("receive_message_type", "MESSAGE_TYPES",
                         "receiveMessageType", TRUE, FALSE),
                   RefTo("send_message_type", "MESSAGE_TYPES",
                         "sendMessageType", TRUE, FALSE) >>
           [] class = "MessageType" ->
                << FileAlways("auditor", "auditor.py"),
                   FileAlways("bitmapper_template", "bitmapper_template.py"),
                   FileAlways("processor_template", "processor_template.py"),
                   FileAlways("sample_message", "sample_message.txt"),
                   FileIf("readme", "readme.md", "readme") >>
           [] class = "ProcessorNode" ->
                ConfigAttributes \o
                << RefTo("receive_message_type", "MESSAGE_TYPES",
                         "receiveMessageType", FALSE, FALSE),
                   FileIf("inline_processor", "inline_processor.py", "inlineProcessor"),
                   RefTo("managed_processor", "FUNCTIONS", "managedProcessor", TRUE, FALSE),
                   RefTo("send_message_type", "MESSAGE_TYPES", "sendMessageType", TRUE, FALSE),
                   [ op |-> "sequential_default" ] >>
           [] class = "WebhookNode" ->
                ConfigAttributes \o
                << RefTo("send_message_type", "MESSAGE_TYPES",
                         "sendMessageType", FALSE, FALSE),
                   FileIf("inline_api_authenticator", "inline_api_authenticator.py",
                          "inlineApiAuthenticator"),
                   RefTo("managed_api_authenticator", "FUNCTIONS",
                         "managedApiAuthenticator", TRUE, FALSE) >>
           [] class = "WebSubHubNode" ->
                ConfigAttributes \o
                << FileIf("inline_api_authenticator", "inline_api_authenticator.py",
                          "inlineApiAuthenticator"),
                   RefTo("managed_api_authenticator", "FUNCTIONS",
                         "managedApiAuthenticator", TRUE, FALSE) >>
           [] OTHER -> << >>
    ELSE CASE class = "AppChangeReceiverNode" ->
                << RefTo("app", "APPS", "app", FALSE, FALSE) >>
           [] OTHER -> << >>

\* ConfigResource.encode
ConfigEncode == << WriteIf("config.json", "config") >>

\* the artifact statements of cls.encode before TerraformObject.encode
EncodeProgram(module, class) ==
  IF module = "resource"
    THEN CASE class \in FunctionResources ->
                << WriteAlways("code.py", "code"), WriteIf("readme.md", "readme") >>
           [] class = "BitmapRouterNode" ->
                << WriteIf("inline_bitmapper.py", "inlineBitmapper") >> \o ConfigEncode
           [] class \in { "CrossTenantSendingNode", "ProcessorNode" } ->
                << WriteIf("inline_processor.py", "inlineProcessor") >> \o ConfigEncode
           [] class \in { "WebhookNode", "WebSubHubNode" } ->
                << WriteIf("inline_api_authenticator.py", "inlineApiAuthenticator") >>
                \o ConfigEncode
           [] class = "ManagedNodeType" ->
                << [ op |-> "write_bad_open", file |-> "config_template.json",
                     key |-> "configTemplate" ],
                   WriteIf("readme.md", "readme") >>
           [] class = "MessageType" ->
                << WriteAlways("auditor.py", "auditor"),
                   WriteAlways("bitmapper_template.py", "bitmapperTemplate"),
                   WriteAlways("processor_template.py", "processorTemplate"),
                   WriteAlways("sample_message.txt", "sampleMessage"),
                   WriteIf("readme.md", "readme") >>
           [] class \in { "CrossAccountApp", "ExternalApp", "ExternalNode",
                          "ManagedApp", "ManagedNode", "Tenant" } -> ConfigEncode
           [] OTHER -> << >>
    ELSE << >>

\* json.loads on the JSON texts the upstream service holds
JsonLoads(cs) ==
  CASE Str(cs) = "{}"         -> Ok(M(EmptyMap))
    [] Str(cs) = "{\"k\": 1}" -> Ok(M("k" :> N(1)))
    [] Str(cs) = "[\"x\"]"    -> Ok(L(<< W("x") >>))
    [] OTHER                  -> Err("JSONDecodeError", Text("Expecting value"))

\* the state of one _attributes call: the dict built so far (wrapped in a
\* tuple by ManagedNodeType) and the registry lookups made
AttrState(attrs, tup, lookups) ==
  [ ok |-> TRUE, attrs |-> attrs, tup |-> tup, lookups |-> lookups ]

AttrFail(st, e) == [ ok |-> FALSE, err |-> e.err, lookups |-> st.lookups ]

\* attributes[key] = value
Assign(st, key, value) ==
  IF st.tup
    THEN AttrFail(st, Err("TypeError", Text("'tuple' object does not support item assignment")))
    ELSE [ st EXCEPT !.attrs = Put(@, key, value) ]

\* one registry lookup BUCKET[name] and what the statement made of it: the
\* TerraformObjectReference built, or None when the statement raised
Looked(st, bucket, name, reg, ref) ==
  [ st EXCEPT !.lookups =
      Append(@, [ ev |-> "lookup", bucket |-> bucket, key |-> name,
                  hit |-> name \in DOMAIN reg[bucket], ref |-> ref ]) ]

\* a slip: a reference whose target is not registered is left out silently
ResolveNamed_SkipMiss(reg, st, ins, name) ==
  IF ~name.ok THEN AttrFail(st, name)
  ELSE IF name.v \notin DOMAIN reg[ins.bucket]
    THEN Looked(st, ins.bucket, name.v, reg, None)
  ELSE Assign(Looked(st, ins.bucket, name.v, reg, Reference(reg[ins.bucket][name.v])),
              ins.attr, Reference(reg[ins.bucket][name.v]))

\* attributes[attr] = TerraformObjectReference(BUCKET[name]), name being
\* what self[key]["name"] gives (kw: the call is
\* TerraformObjectReference(obj=BUCKET[name], attr="name"), which
\* __init__(self, obj) does not accept)
ResolveNamed(reg, st, ins, name) ==
  IF ~name.ok THEN AttrFail(st, name)
  ELSE IF name.v \notin DOMAIN reg[ins.bucket]
    THEN AttrFail(Looked(st, ins.bucket, name.v, reg, None), Err("KeyError", name.v))
  ELSE IF ins.kw
    THEN AttrFail(Looked(st, ins.bucket, name.v, reg, None),
                  Err("TypeError", Text("unexpected keyword argument 'attr'")))
  ELSE Assign(Looked(st, ins.bucket, name.v, reg, Reference(reg[ins.bucket][name.v])),
              ins.attr, Reference(reg[ins.bucket][name.v]))

\* a reference statement of _attributes; opt: "if self.get(key):" guards it
ResolveRef(self, reg, st, ins) ==
  IF ins.opt /\ ~Truthy(Get(self.data, ins.key)) THEN st
  ELSE ResolveNamed(reg, st, ins, RefName(self.data, ins.key))

\* route_table := json.loads(text); if it is true, attributes["route_table"]
Routed(st, text, parsed) ==
  IF text.t # "str"
    THEN AttrFail(st, Err("TypeError", Text("the JSON object must be str")))
  ELSE IF ~parsed.ok THEN AttrFail(st, parsed)
  ELSE IF Truthy(parsed.v) THEN Assign(st, "route_table", parsed.v)
  ELSE st

\* self.get("routeTable", "{}")
RouteTableText(self) ==
  IF "routeTable" \in DOMAIN self.data THEN self.data["routeTable"] ELSE W("{}")

\* if route_table := json.loads(self.get("routeTable", "{}"))
RouteTable(self, st) ==
  Routed(st, RouteTableText(self),
         IF RouteTableText(self).t = "str" THEN JsonLoads(RouteTableText(self).v)
         ELSE None)

\* a slip: the flag left as TerraformObject._attributes gave it
SequentialDefault_Omitted(st) == st

\* attributes["sequential_processing"] =
\*     attributes.get("sequential_processing", False)
SequentialDefault(st) ==
  Assign(st, "sequential_processing",
         IF "sequential_processing" \in DOMAIN st.attrs
           THEN st.attrs["sequential_processing"] ELSE B(FALSE))

\* one statement of _attributes
AttrStep(self, reg, st, ins) ==
  CASE ins.op = "ref" -> ResolveRef(self, reg, st, ins)
    [] ins.op = "file_always" -> Assign(st, ins.attr, File(self, ins.file))
    [] ins.op = "file_if" ->
         IF Truthy(Get(self.data, ins.key))
           THEN Assign(st, ins.attr, File(self, ins.file)) ELSE st
    [] ins.op = "route_table" -> RouteTable(self, st)
    [] ins.op = "sequential_default" -> SequentialDefault(st)
    [] ins.op = "tuple" -> [ st EXCEPT !.tup = TRUE ]

RECURSIVE AttrRun(_, _, _, _)
AttrRun(self, reg, st, prog) ==
  IF ~st.ok \/ prog = << >> THEN st
  ELSE AttrRun(self, reg, AttrStep(self, reg, st, Head(prog)), Tail(prog))

\* what _attributes returns after its statements ran
AttributesOf(st) ==
  IF ~st.ok THEN st
  ELSE [ ok |-> TRUE, lookups |-> st.lookups,
         v |-> IF st.tup THEN [ t |-> "tuple", v |-> << M(st.attrs) >> ]
               ELSE M(st.attrs) ]

\* the class's statements run on what TerraformObject._attributes gave
AttributesFrom(self, reg, base) ==
  IF ~base.ok THEN [ ok |-> FALSE, err |-> base.err, lookups |-> << >> ]
  ELSE AttributesOf(AttrRun(self, reg, AttrState(base.v, FALSE, << >>),
                            AttributesProgram(self.module, self.class)))

\* self._attributes of any class: [ok, v: the attributes, lookups] or
\* [ok, err, lookups]
Attributes(self, reg) == AttributesFrom(self, reg, BaseAttributes(self))

(***************************************************************************)
(* The file system: the files written (path -> content) and the            *)
(* directories made.                                                       *)
(***************************************************************************)
EmptyFs == [ files |-> [ p \in {} |-> None ], dirs |-> {} ]

\* Resource._open_artifact: makedirs(self.__artifacts_path, exist_ok=True),
\* open(path, "wt")
OpenArtifact(self, fs, file_name) ==
  [ files |-> Put(fs.files, ArtifactFile(self, file_name), S(<< >>)),
    dirs  |-> fs.dirs \cup { ArtifactsPath(self) } ]

\* f.write(value) on the file just opened
Written(opened, path, value) ==
  IF ~value.ok THEN [ ok |-> FALSE, err |-> value.err, fs |-> opened ]
  ELSE IF value.v.t # "str"
    THEN [ ok |-> FALSE, fs |-> opened,
           err |-> Err("TypeError", Text("write() argument must be str")).err ]
  ELSE [ ok |-> TRUE, fs |-> [ opened EXCEPT !.files = Put(@, path, value.v) ] ]

\* with self._open_artifact(file) as f: f.write(value)
WriteArtifact(self, fs, file_name, value) ==
  Written(OpenArtifact(self, fs, file_name), ArtifactFile(self, file_name), value)

\* one artifact statement of encode
WriteStep(self, st, ins) ==
  IF ins.op # "write_always" /\ ~Truthy(Get(self.data, ins.key)) THEN st
  ELSE IF ins.op = "write_bad_open"
    THEN [ ok |-> FALSE, fs |-> st.fs,
           err |-> Err("TypeError", Text("_open_artifact() takes 2 positional arguments")).err ]
  ELSE IF ~LocalName(self).ok
    THEN [ ok |-> FALSE, err |-> LocalName(self).err, fs |-> st.fs ]
  ELSE WriteArtifact(self, st.fs, ins.file, Item(self.data, ins.key))

RECURSIVE WriteRun(_, _, _)
WriteRun(self, st, prog) ==
  IF ~st.ok \/ prog = << >> THEN st
  ELSE WriteRun(self, WriteStep(self, st, Head(prog)), Tail(prog))

\* TerraformObject.encode after the artifacts were written:
\* { _object_class: { _object_type: { _local_name: _attributes } } }
Fragment(self, wrote, ln, attrs) ==
  IF ~wrote.ok
    THEN [ ok |-> FALSE, err |-> wrote.err, fs |-> wrote.fs, lookups |-> << >> ]
  ELSE IF ~ln.ok
    THEN [ ok |-> FALSE, err |-> ln.err, fs |-> wrote.fs, lookups |-> << >> ]
  ELSE IF ~attrs.ok
    THEN [ ok |-> FALSE, err |-> attrs.err, fs |-> wrote.fs, lookups |-> attrs.lookups ]
  ELSE [ ok |-> TRUE, fs |-> wrote.fs, lookups |-> attrs.lookups,
         v |-> M(ObjectClass(self) :> M(ObjectType(self) :> M(Str(ln.v) :> attrs.v))) ]

\* obj.encode(): the class's artifact writes, then TerraformObject.encode;
\* [ok, v: the fragment, fs, lookups] or [ok, err, fs, lookups]
Encode(self, reg, fs) ==
  IF self.module = "none"
    THEN [ ok |-> FALSE, fs |-> fs, lookups |-> << >>,
           err |-> Err("AttributeError", Text("encode")).err ]
  ELSE Fragment(self,
                WriteRun(self, [ ok |-> TRUE, fs |-> fs ],
                         EncodeProgram(self.module, self.class)),
                LocalName(self), Attributes(self, reg))

RECURSIVE Dump(_)
\* json.dump(obj, default=encode_terraform): what is written for a value; a
\* TerraformObjectReference is written as its encode(), a tuple as a list
Dump(x) ==
  CASE x.t = "ref"   -> Text(ReferenceEncode(x))
    [] x.t = "dict"  -> M([ k \in DOMAIN x.v |-> Dump(x.v[k]) ])
    [] x.t = "list"  -> L([ i \in DOMAIN x.v |-> Dump(x.v[i]) ])
    [] x.t = "tuple" -> L([ i \in DOMAIN x.v |-> Dump(x.v[i]) ])
    [] OTHER         -> x

(***************************************************************************)
(* State.  service .. err are the state of one run of terrafy(); n_* hold  *)
(* one application of the identifier normalizers; m_* hold one fold of     *)
(* always_merger.merge over a sequence of fragments.                       *)
(***************************************************************************)
VARIABLES service, pc, getter, exclusive_start_key, objs, idx, doc, edges,
          edges_json, terraform_objects, registry, fs, log, err,
          n_in, n_fn, n_out, m_frags, m_i, m_acc, m_right

runVars   == << service, pc, getter, exclusive_start_key, objs, idx, doc,
                edges, edges_json, terraform_objects, registry, fs, log, err >>
normVars  == << n_in, n_fn, n_out >>
mergeVars == << m_frags, m_i, m_acc, m_right >>
vars      == << runVars, normVars, mergeVars >>

\* BUCKETS as objects.py leaves them at import: six empty dicts
EmptyRegistry == [ b \in BucketNames |-> [ k \in {} |-> NoneObj ] ]

RunIdle ==
  /\ service = [ tenant |-> EmptyMap ]
  /\ pc = "idle" /\ getter = 0 /\ exclusive_start_key = None
  /\ objs = << >> /\ idx = 0 /\ doc = M(EmptyMap) /\ edges = << >>
  /\ edges_json = M(EmptyMap) /\ terraform_objects = << >>
  /\ registry = EmptyRegistry /\ fs = EmptyFs /\ log = << >> /\ err = None

NormIdle  == n_in = << >> /\ n_fn = "none" /\ n_out = << >>

MergeIdle == m_frags = << >> /\ m_i = 0 /\ m_acc = None /\ m_right = None

(***************************************************************************)
(* The normalizers applied to bounded inputs.                              *)
(***************************************************************************)
NormAlphabet == { "a", "b", "Z", "Q", "7", "_", "-", " " }

RECURSIVE StringsUpTo(_)
StringsUpTo(n) ==
  IF n = 0 THEN { << >> }
  ELSE LET shorter == StringsUpTo(n - 1)
       IN  shorter \cup { Append(cs, c) : cs \in shorter, c \in NormAlphabet }

NormInputs ==
  StringsUpTo(MaxLen)
    \cup { Spell[w] : w \in { "receiveMessageType", "name", "APIUser",
                              "Mt-1", "a@b.c", "App 2" } }

NormInit == /\ RunIdle /\ MergeIdle
            /\ n_in \in NormInputs /\ n_fn = "none" /\ n_out = << >>

\* self._convert_to_local_name(n_in)
ApplyLocalName ==
  /\ n_fn = "none"
  /\ n_fn' = "local_name"
  /\ n_out' = << ConvertToLocalName(n_in) >>
  /\ UNCHANGED << n_in, runVars, mergeVars >>

\* convert_key(n_in)
ApplyKey ==
  /\ n_fn = "none"
  /\ n_fn' = "key"
  /\ n_out' = << ConvertKey(n_in) >>
  /\ UNCHANGED << n_in, runVars, mergeVars >>

\* self._convert_to_local_name applied to its own result
ApplyLocalNameAgain ==
  /\ n_fn = "local_name" /\ Len(n_out) = 1
  /\ n_out' = Append(n_out, ConvertToLocalName(n_out[1]))
  /\ UNCHANGED << n_in, n_fn, runVars, mergeVars >>

NormNext == ApplyLocalName \/ ApplyKey \/ ApplyLocalNameAgain

SpecNorm == NormInit /\ [][NormNext]_vars

\* the table of spellings is consistent: each word is spelled by its letters
SpellOK == \A w \in DOMAIN Spell : Str(Spell[w]) = w

\* the lowercase letter of an uppercase one, read off the two alphabets
LowerOf(c) == LowerSeq[CHOOSE k \in DOMAIN UpperSeq : UpperSeq[k] = c]

\* C9: the local name of s has the length of s; position by position it is
\* s[i] lowercased when s[i] is in [A-Za-z0-9_] and "_" otherwise, so every
\* character of it is in [a-z0-9_]; normalizing it again changes nothing.
C9_LocalName ==
  n_fn = "local_name" =>
    LET o == n_out[1]
    IN  /\ Len(o) = Len(n_in)
        /\ \A i \in DOMAIN n_in :
             /\ o[i] \in LowerChars \cup DigitChars \cup { "_" }
             /\ n_in[i] \in LowerChars \cup DigitChars \cup { "_" } => o[i] = n_in[i]
             /\ n_in[i] \in UpperChars => o[i] = LowerOf(n_in[i])
             /\ n_in[i] \notin LOCAL_NAME_KEPT => o[i] = "_"
        /\ Len(n_out) = 2 => n_out[2] = o

\* a name with an uppercase letter and a character outside [A-Za-z0-9_],
\* normalized twice
C9_Witness ==
  /\ n_fn = "local_name" /\ Len(n_out) = 2
  /\ \E i, j \in DOMAIN n_in : n_in[i] \in UpperChars /\ n_in[j] \notin LOCAL_NAME_KEPT

\* the number of uppercase letters of s at positions 2..i
UppersTo(cs, i) == Cardinality({ j \in 2..i : cs[j] \in UpperChars })

\* C10: for an alphanumeric key s, the snake key has one more character per
\* uppercase letter after the first position; s[i] lands lowercased at
\* i + (uppercase letters in 2..i), directly preceded by "_" exactly when it
\* is an uppercase letter with i > 1; nothing precedes the first character.
C10_SnakeKey ==
  (n_fn = "key" /\ \A i \in DOMAIN n_in :
                     n_in[i] \in UpperChars \cup LowerChars \cup DigitChars) =>
    LET o == n_out[1]
    IN  /\ Len(o) = Len(n_in) + UppersTo(n_in, Len(n_in))
        /\ \A i \in DOMAIN n_in :
             LET p == i + UppersTo(n_in, i)
             IN  /\ o[p] = IF n_in[i] \in UpperChars THEN LowerOf(n_in[i]) ELSE n_in[i]
                 /\ (i > 1 /\ n_in[i] \in UpperChars) => o[p - 1] = "_"
        /\ Cardinality({ p \in DOMAIN o : o[p] = "_" }) = UppersTo(n_in, Len(n_in))
        /\ n_in = Spell["receiveMessageType"] => Str(o) = "receive_message_type"
        /\ n_in = Spell["name"] => Str(o) = "name"

\* a key with a leading capital followed by a run of capitals
C10_Witness ==
  /\ n_fn = "key" /\ n_in = Spell["APIUser"] /\ Str(n_out[1]) = "a_p_i_user"

(***************************************************************************)
(* always_merger.merge folded over bounded fragments, as the loops         *)
(*   x_json = dict()                                                       *)
(*   for obj in objs: x_json = always_merger.merge(x_json, obj.encode())   *)
(* do, and regrouped from the right for comparison.                        *)
(***************************************************************************)
MergeLeaves == { N(1), N(2), L(<< N(1) >>) }

MergeInner ==
  MergeLeaves \cup
  { M(f) : f \in UNION { [ K -> MergeLeaves ] : K \in (SUBSET { "x", "y" }) \ { {} } } }

MergeFragments == { M(EmptyMap) } \cup { M("a" :> v) : v \in MergeInner }

MergeInit == /\ RunIdle /\ NormIdle
             /\ m_frags \in [ 1..3 -> MergeFragments ]
             /\ m_i = 0 /\ m_acc = M(EmptyMap) /\ m_right = None

\* one turn of the loop: x_json = always_merger.merge(x_json, fragment)
FoldStep ==
  /\ m_i < Len(m_frags)
  /\ m_acc' = Merge(m_acc, m_frags[m_i + 1])
  /\ m_i' = m_i + 1
  /\ UNCHANGED << m_frags, m_right, runVars, normVars >>

\* the same three fragments merged in the other grouping
GroupRight ==
  /\ m_i = Len(m_frags) /\ m_right = None
  /\ m_right' = Merge(m_frags[1], Merge(m_frags[2], m_frags[3]))
  /\ UNCHANGED << m_frags, m_i, m_acc, runVars, normVars >>

MergeNext == FoldStep \/ GroupRight

SpecMerge == MergeInit /\ [][MergeNext]_vars

\* the kind of a value, for merging: a map, a list, or anything else
KindOf(v) == IF v.t \in { "dict", "list" } THEN v.t ELSE "leaf"

\* what two colliding values that are not both maps merge to
Collide(u, v) == IF u.t = "list" /\ v.t = "list" THEN L(u.v \o v.v) ELSE v

\* the fragments hold values of one kind wherever two of them share a path
SameKinds ==
  \A i, j \in DOMAIN m_frags :
    ("a" \in DOMAIN m_frags[i].v /\ "a" \in DOMAIN m_frags[j].v) =>
      LET u == m_frags[i].v["a"]
          v == m_frags[j].v["a"]
      IN  /\ KindOf(u) = KindOf(v)
          /\ KindOf(u) = "dict" =>
               \A k \in DOMAIN u.v \cap DOMAIN v.v : KindOf(u.v[k]) = KindOf(v.v[k])

Getters ==
  << "main", "tenant_and_tenant_users", "api_users", "message_types",
     "functions", "managed_node_types", "kms_keys", "apps", "nodes_and_edges" >>

\* a slip: functions processed before the message types they refer to
Getters_FunctionsFirst ==
  << "main", "tenant_and_tenant_users", "api_users", "functions",
     "message_types", "managed_node_types", "kms_keys", "apps", "nodes_and_edges" >>

\* the getters that page through a listing query
Listings ==
  { "api_users", "message_types", "functions", "managed_node_types",
    "kms_keys", "apps", "nodes_and_edges" }

\* the document each listing getter writes
DocFile(kind) ==
  CASE kind = "api_users"          -> "api-users.tf.json"
    [] kind = "message_types"      -> "message-types.tf.json"
    [] kind = "functions"          -> "functions.tf.json"
    [] kind = "managed_node_types" -> "managed-node-types.tf.json"
    [] kind = "kms_keys"           -> "kms-keys.tf.json"
    [] kind = "apps"               -> "apps.tf.json"
    [] kind = "nodes_and_edges"    -> "nodes.tf.json"

\* the object the listing builds of one payload:
\*   resource_factory(data)                                    users, keys, apps
\*   data_source_factory(data) if data.get("system") else resource_factory(data)
\*   data_source_factory(data) or resource_factory(data)       nodes
\* a slip: the system flag is not looked at
Make_IgnoresSystem(kind, data, reg) ==
  IF kind = "nodes_and_edges"
    THEN LET d == Factory("data", data, reg)
         IN  IF ~d.ok THEN d
             ELSE IF d.obj.module # "none" THEN d
             ELSE Factory("resource", data, reg)
    ELSE Factory("resource", data, reg)

Make(kind, data, reg) ==
  CASE kind \in { "api_users", "kms_keys", "apps" } -> Factory("resource", data, reg)
    [] kind \in { "message_types", "functions", "managed_node_types" } ->
         IF Truthy(Get(data, "system")) THEN Factory("data", data, reg)
         ELSE Factory("resource", data, reg)
    [] kind = "nodes_and_edges" ->
         LET d == Factory("data", data, reg)
         IN  IF ~d.ok THEN d
             ELSE IF d.obj.module # "none" THEN d
             ELSE Factory("resource", data, reg)

RECURSIVE MakeAll(_, _, _, _)
\* the rest of the comprehension, o being what the factory gave for the head
MakeRest(kind, echos, made, reg, o) ==
  IF ~o.ok THEN [ ok |-> FALSE, err |-> o.err, objs |-> made, reg |-> reg ]
  ELSE MakeAll(kind, Tail(echos), o.reg, Append(made, o.obj))

\* objs = [factory(data) for data in result["echos"]]; a payload that raises
\* leaves the objects built before it registered
MakeAll(kind, echos, reg, made) ==
  IF echos = << >> THEN [ ok |-> TRUE, objs |-> made, reg |-> reg ]
  ELSE MakeRest(kind, echos, made, reg, Make(kind, Head(echos).v, reg))

\* the upstream service: the page it answers a listing query with, given the
\* exclusiveStartKey of the query: the first page for none, else the page
\* after the one that carried the key
Respond(pages, key) ==
  LET after == { i \in 1..(Len(pages) - 1) :
                   "lastEvaluatedKey" \in DOMAIN pages[i]
                   /\ pages[i]["lastEvaluatedKey"] = key }
  IN  IF key.t = "none" \/ after = {} THEN pages[1]
      ELSE pages[(CHOOSE i \in after : TRUE) + 1]

\* a slip: the listing goes on unless lastEvaluatedKey is None
Continues_NotNone(result) == Get(result, "lastEvaluatedKey").t # "none"

\* a slip: the objects of the first page are returned without asking for more
Continues_Never(result) == FALSE

\* if (exclusive_start_key := result.get("lastEvaluatedKey"))
Continues(result) == Truthy(Get(result, "lastEvaluatedKey"))

\* a slip: every query sent without the key of the previous response
NextKey_Forgotten(result) == None

\* exclusive_start_key := result.get("lastEvaluatedKey")
NextKey(result) == Get(result, "lastEvaluatedKey")

RECURSIVE EncodeAll(_, _, _, _, _)
\* the rest of the loop, e being what the head's encode() gave
EncodeRest(os, reg, json, lookups, e) ==
  IF ~e.ok
    THEN [ ok |-> FALSE, err |-> e.err, doc |-> json, fs |-> e.fs,
           lookups |-> lookups \o e.lookups ]
  ELSE EncodeAll(Tail(os), reg, e.fs, Merge(json, e.v), lookups \o e.lookups)

\* for obj in os: json = always_merger.merge(json, obj.encode())
EncodeAll(os, reg, files, json, lookups) ==
  IF os = << >>
    THEN [ ok |-> TRUE, doc |-> json, fs |-> files, lookups |-> lookups ]
  ELSE EncodeRest(os, reg, json, lookups, Encode(Head(os), reg, files))

RECURSIVE SendEdges(_, _, _, _, _, _)
\* edges.append(edge); edges_json = always_merger.merge(edges_json, edge.encode())
EdgeEncoded(datas, reg, es, json, lookups, edge, e) ==
  IF ~e.ok
    THEN [ ok |-> FALSE, err |-> e.err, edges |-> Append(es, edge), doc |-> json,
           fs |-> e.fs, lookups |-> lookups \o e.lookups ]
  ELSE SendEdges(Tail(datas), reg, e.fs, Append(es, edge), Merge(json, e.v),
                 lookups \o e.lookups)

\* edge = resource_factory(data), made being what the factory gave
EdgeMade(datas, files, es, json, lookups, made) ==
  IF ~made.ok
    THEN [ ok |-> FALSE, err |-> made.err, edges |-> es, doc |-> json, fs |-> files,
           lookups |-> lookups ]
  ELSE EdgeEncoded(datas, made.reg, es, json, lookups, made.obj,
                   Encode(made.obj, made.reg, files))

\* for data in node.get("sendEdges", []):
\*     edge = resource_factory(data); edges.append(edge)
\*     edges_json = always_merger.merge(edges_json, edge.encode())
SendEdges(datas, reg, files, es, json, lookups) ==
  IF datas = << >>
    THEN [ ok |-> TRUE, edges |-> es, doc |-> json, fs |-> files, lookups |-> lookups ]
  ELSE EdgeMade(datas, files, es, json, lookups,
                IF Head(datas).t = "dict" THEN Factory("resource", Head(datas).v, reg)
                ELSE Err("TypeError", Text("string indices must be integers")))

\* with open(file, "wt") as tf_json: json.dump(obj=json, ...)
WriteDoc(files, file, json) == [ files EXCEPT !.files = Put(@, file, Dump(json)) ]

(***************************************************************************)
(* Upstream data.  A payload is the dict the GraphQL client returns for    *)
(* one entity; a page is the dict returned for one listing query.          *)
(***************************************************************************)
MaxPages == 3

\* { "name": n }, the value of a cross-reference field
Named(n) == M("name" :> W(n))

Payload(typename, name) == ("__typename" :> W(typename)) @@ ("name" :> W(name))

SystemPayload(typename, name) == Payload(typename, name) @@ ("system" :> B(TRUE))

\* the i-th continuation token
Token(i) == S(<< "T", DigitSeq[i + 1] >>)

\* a page with items and no lastEvaluatedKey
LastPage(items) == "echos" :> L([ i \in DOMAIN items |-> M(items[i]) ])

\* a page with items and a lastEvaluatedKey
PageWith(items, key) == LastPage(items) @@ ("lastEvaluatedKey" :> key)

MtUser ==
  Payload("MessageType", "Mt-1")
    @@ ("description" :> W("d")) @@ ("auditor" :> W("x"))
    @@ ("bitmapperTemplate" :> W("x")) @@ ("processorTemplate" :> W("x"))
    @@ ("sampleMessage" :> W("x")) @@ ("readme" :> None)
    @@ ("requirements" :> L(<< W("x") >>))

FnUser ==
  Payload("ProcessorFunction", "Fn.1")
    @@ ("description" :> W("d")) @@ ("code" :> W("x")) @@ ("readme" :> W("x"))
    @@ ("argumentMessageType" :> Named("Mt-1"))
    @@ ("returnMessageType" :> Named("echo.json"))

Without(data, key) == [ k \in DOMAIN data \ { key } |-> data[k] ]

EdgeTo(src, tgt) ==
  ("__typename" :> W("Edge")) @@ ("source" :> Named(src)) @@ ("target" :> Named(tgt))
    @@ ("description" :> None) @@ ("maxReceiveCount" :> N(3)) @@ ("kmsKey" :> None)

Timer(name, sendEdges) ==
  Payload("TimerNode", name) @@ ("scheduleExpression" :> W("x"))
    @@ ("sendEdges" :> L([ i \in DOMAIN sendEdges |-> M(sendEdges[i]) ]))

Processor(name) ==
  Payload("ProcessorNode", name)
    @@ ("receiveMessageType" :> Named("Mt-1")) @@ ("sendMessageType" :> Named("echo.json"))
    @@ ("managedProcessor" :> Named("Fn.1")) @@ ("inlineProcessor" :> None)
    @@ ("sequentialProcessing" :> None) @@ ("sendEdges" :> L(<< >>))

\* a cross-tenant sending node with neither managedProcessor nor sendMessageType
Sender(name) ==
  Payload("CrossTenantSendingNode", name) @@ ("app" :> Named("App-1"))
    @@ ("receiveMessageType" :> Named("Mt-1")) @@ ("inlineProcessor" :> W("x"))

\* a WebSub hub node with every field its fragment of the query selects
WebSubHub(name) ==
  Payload("WebSubHubNode", name) @@ ("description" :> None) @@ ("config" :> None)
    @@ ("defaultLeaseSeconds" :> N(0)) @@ ("deliveryRetries" :> N(3))
    @@ ("inlineApiAuthenticator" :> None)
    @@ ("loggingLevel" :> W("x")) @@ ("managedApiAuthenticator" :> Named("sys-fn"))
    @@ ("maxLeaseSeconds" :> None) @@ ("receiveMessageType" :> Named("Mt-1"))
    @@ ("requirements" :> L(<< W("x") >>)) @@ ("signatureAlgorithm" :> None)
    @@ ("subscriptionSecurity" :> W("x"))

\* the node listings tried
NodeLists ==
  { << Timer("n1", << EdgeTo("n1", "n2") >>), Processor("n2") >>,
    << Timer("n1", << EdgeTo("n1", "n9") >>), Payload("FutureNode", "n9") >>,
    << Timer("n1", << EdgeTo("n1", "ghost") >>), Processor("n2") >>,
    << Timer("n1", << Put(EdgeTo("n1", "n2"), "kmsKey", Named("Key 1")) >>),
       Processor("n2") >>,
    << Payload("AlertEmitterNode", "alerts")
         @@ ("sendEdges" :> L(<< M(EdgeTo("alerts", "n2")) >>)),
       Processor("n2") >>,
    << Payload("AppChangeReceiverNode", "n1") @@ ("app" :> Named("App-1")),
       Put(Processor("n2"), "sendEdges", L(<< M(EdgeTo("n2", "n1")) >>)) >>,
    << Payload("ExternalNode", "n1") @@ ("app" :> Named("App 2"))
         @@ ("receiveMessageType" :> Named("Mt-1")) @@ ("config" :> W("{}")),
       Payload("ManagedNode", "N-3") @@ ("app" :> Named("App-1"))
         @@ ("managedNodeType" :> Named("sys.type")) >>,
    << Payload("LoadBalancerNode", "n1") @@ ("receiveMessageType" :> Named("ghost")) >>,
    << Payload("LoadBalancerNode", "n1") @@ ("receiveMessageType" :> Named("Mt-1"))
         @@ ("sendEdges" :> None) >>,
    << Payload("CrossTenantSendingNode", "n1") @@ ("app" :> Named("App-1"))
         @@ ("receiveMessageType" :> Named("Mt-1"))
         @@ ("managedProcessor" :> Named("Fn.1")) >>,
    << Timer("n1", << >>), Payload("NodeResource", "n9") >>,
    << Put(Processor("n1"), "sequentialProcessing", B(TRUE)),
       Without(Processor("n2"), "sequentialProcessing") >>,
    << Put(Processor("n1"), "sequentialProcessing", B(FALSE)),
       Sender("n2") @@ ("sequentialProcessing" :> B(TRUE)) >>,
    << Sender("n1") @@ ("sequentialProcessing" :> None), Sender("n2") >>,
    << WebSubHub("n1"),
       Payload("ManagedNode", "N-3") @@ ("app" :> Named("App-1"))
         @@ ("managedNodeType" :> Named("sys.type")) @@ ("description" :> S(<< >>))
         @@ ("ports" :> L(<< M(("containerPort" :> N(80)) @@ ("hostPort" :> N(0))
                              @@ ("protocol" :> W("x")) @@ ("hostAddress" :> None)) >>)) >>,
    << Payload("BitmapRouterNode", "n1") @@ ("receiveMessageType" :> Named("Mt-1"))
         @@ ("managedBitmapper" :> Named("sys-fn")) @@ ("routeTable" :> W("{\"k\": 1}")),
       Payload("WebhookNode", "n2") @@ ("sendMessageType" :> Named("echo.json"))
         @@ ("inlineApiAuthenticator" :> W("x")) >>,
    << Payload("BitmapRouterNode", "n1") @@ ("receiveMessageType" :> Named("Mt-1"))
         @@ ("routeTable" :> W("{}")),
       Payload("BitmapRouterNode", "n2") @@ ("receiveMessageType" :> Named("Mt-1")) >>,
    << Processor("n2"),
       Payload("BitmapRouterNode", "n1") @@ ("receiveMessageType" :> Named("Mt-1"))
         @@ ("routeTable" :> None) >>,
    << Processor("n-1"), Processor("N 1") >>,
    << Payload("CrossTenantReceivingNode", "n1") @@ ("app" :> Named("App-1")),
       Payload("CrossTenantReceivingNode", "n2") @@ ("app" :> Named("App-1")) >> }

\* the message type and function listings tried: << message types, functions >>
FunctionLists ==
  { << << MtUser >>, << Without(FnUser, "description") >> >>,
    << << Without(MtUser, "description") >>, << FnUser >> >>,
    << << MtUser >>, << Put(FnUser, "argumentMessageType", Named("ghost")) >> >>,
    << << MtUser, SystemPayload("MessageType", "echo.json") >>,
       << Payload("FutureFunction", "Fn.1"), FnUser >> >>,
    << << MtUser, SystemPayload("MessageType", "echo.json") >>,
       << Without(FnUser, "name") >> >>,
    << << MtUser @@ ("system" :> B(FALSE)), SystemPayload("MessageType", "echo.json") >>,
       << FnUser @@ ("system" :> None), SystemPayload("BitmapperFunction", "sys-fn") >> >>,
    << << SystemPayload("MessageType", "echo.json"), MtUser >>,
       << Payload("BitmapperFunction", "Fn.1") @@ ("description" :> W("d"))
            @@ ("code" :> W("x")) @@ ("argumentMessageType" :> Named("echo.json")),
          SystemPayload("ApiAuthenticatorFunction", "sys-fn") >> >> }

\* the contents of a page of KMS keys
KeyPages ==
  { << >>, << Payload("KmsKey", "Key 1") >>,
    << Payload("KmsKey", "Key 2"), Payload("KmsKey", "Key 1") >> }

\* what the last response of a listing says about continuing: no
\* lastEvaluatedKey at all, null, or an empty one
LastKeys == { "absent", "null", "empty" }

\* k pages: a continuation token on each of the first k-1, none on the last
Paged(contents, last) ==
  [ i \in DOMAIN contents |->
      IF i < Len(contents) THEN PageWith(contents[i], Token(i))
      ELSE CASE last = "absent" -> LastPage(contents[i])
             [] last = "null"   -> PageWith(contents[i], None)
             [] last = "empty"  -> PageWith(contents[i], S(<< >>)) ]

KeyListings ==
  { Paged(c, last) : c \in UNION { [ 1..k -> KeyPages ] : k \in 1..MaxPages },
                     last \in LastKeys }

TenantPayload ==
  ("__typename" :> W("Tenant")) @@ ("description" :> W("d")) @@ ("config" :> W("{}"))
    @@ ("users" :> L(<< M(("__typename" :> W("TenantUser")) @@ ("email" :> W("owner"))
                          @@ ("role" :> W("owner")) @@ ("status" :> None)),
                        M(("__typename" :> W("TenantUser")) @@ ("email" :> W("a@b.c"))
                          @@ ("role" :> W("admin")) @@ ("status" :> None)) >>))

\* a user of the tenant as GetTenant returns it
User(email, role) ==
  M(("__typename" :> W("TenantUser")) @@ ("email" :> email) @@ ("role" :> role)
    @@ ("status" :> None))

\* other answers of GetTenant: a payload without description and config and
\* with no users, and one whose users are an owner, users without a role (null,
\* empty, key absent) and two users with one
TenantPayloads ==
  { ("description" :> None) @@ ("config" :> None) @@ ("users" :> L(<< >>))
      @@ TenantPayload,
    ("users" :> L(<< User(W("owner"), W("owner")), User(W("x"), None),
                     User(W("d"), S(<< >>)),
                     M(("__typename" :> W("TenantUser")) @@ ("email" :> W("n9"))),
                     User(W("n1"), W("admin")), User(W("a@b.c"), W("admin")) >>))
      @@ TenantPayload }

\* upstream data every listing of which is small and well formed
Baseline ==
  [ tenant  |-> TenantPayload,
    tfstate |-> FALSE,
    pages   |->
      [ api_users |-> << LastPage(<< ("__typename" :> W("ApiUser"))
                                      @@ ("username" :> W("api")) @@ ("role" :> W("admin"))
                                      @@ ("description" :> None) >>) >>,
        message_types |-> << LastPage(<< MtUser, SystemPayload("MessageType", "echo.json") >>) >>,
        functions |-> << LastPage(<< FnUser, SystemPayload("ProcessorFunction", "sys-fn") >>) >>,
        managed_node_types |-> << LastPage(<< SystemPayload("ManagedNodeType", "sys.type") >>) >>,
        kms_keys |-> << LastPage(<< Payload("KmsKey", "Key 1") >>) >>,
        apps |-> << PageWith(<< Payload("ManagedApp", "App-1") >>, Token(1)),
                    LastPage(<< Payload("ExternalApp", "App 2") @@ ("config" :> W("{}")) >>) >>,
        nodes_and_edges |-> << LastPage(<< >>) >> ] ]

\* the upstream data a run is started on
Services ==
  { [ Baseline EXCEPT !.pages.nodes_and_edges = << LastPage(ns) >> ] : ns \in NodeLists }
  \cup
  { [ Baseline EXCEPT !.pages.nodes_and_edges =
        << PageWith(<< Timer("n1", << EdgeTo("n1", "n2") >>) >>, Token(1)),
           LastPage(<< Processor("n2") >>) >>,
        !.tfstate = TRUE ] }
  \cup
  { [ Baseline EXCEPT !.pages.message_types = << LastPage(fl[1]) >>,
                      !.pages.functions = << LastPage(fl[2]) >> ] : fl \in FunctionLists }
  \cup
  { [ Baseline EXCEPT !.pages.managed_node_types =
        << LastPage(<< Payload("ManagedNodeType", "Type A") @@ ("description" :> W("d"))
                         @@ ("imageUri" :> W("x")) @@ ("readme" :> rd)
                         @@ ("configTemplate" :> ct) >>) >> ]
      : rd \in { None, W("x") }, ct \in { None, W("{}") } }
  \cup
  { [ Baseline EXCEPT !.pages.api_users =
        << LastPage(<< ("__typename" :> W("ApiUser")) @@ ("username" :> W("Api-User.1"))
                         @@ ("role" :> W("admin")) @@ ("description" :> W("d")) >>) >> ] }
  \cup
  { [ Baseline EXCEPT !.pages.kms_keys = ps ] : ps \in KeyListings }
  \cup
  { [ Baseline EXCEPT !.tenant = t ] : t \in TenantPayloads }

(***************************************************************************)
(* The run.  pc is the statement terrafy() is at; log is what the run has  *)
(* done that can be observed from outside, in order: queries sent,         *)
(* registry lookups, documents written, CLI commands run.                  *)
(***************************************************************************)
Query(kind, key) == [ ev |-> "query", kind |-> kind, key |-> key ]

Wrote(file) == [ ev |-> "write", file |-> file ]

Cli(args) == [ ev |-> "cli", args |-> args ]

\* where the loop over the getters is when it reaches the g-th one
PcAt(g) ==
  IF g > Len(Getters) THEN "init"
  ELSE CASE Getters[g] = "main" -> "main"
         [] Getters[g] = "tenant_and_tenant_users" -> "tenant"
         [] OTHER -> "list"

\* the number of listing queries sent for a kind so far
QueriesOf(kind) ==
  Cardinality({ i \in DOMAIN log : log[i].ev = "query" /\ log[i].kind = kind })

\* the state of terraform.tfstate left by an earlier run
OldState ==
  M(("outputs" :> M("o" :> N(1))) @@ ("resources" :> L(<< N(1) >>)) @@ ("serial" :> N(1)))

Init ==
  /\ NormIdle /\ MergeIdle
  /\ service \in Services
  /\ pc = PcAt(1) /\ getter = 1 /\ exclusive_start_key = None
  /\ objs = << >> /\ idx = 0 /\ doc = M(EmptyMap)
  /\ edges = << >> /\ edges_json = M(EmptyMap)
  /\ terraform_objects = << >> /\ registry = EmptyRegistry
  /\ fs = IF service.tfstate
            THEN [ EmptyFs EXCEPT !.files = "terraform.tfstate" :> OldState ]
            ELSE EmptyFs
  /\ log = << >> /\ err = None

\* terraform_objects.extend(getter(gql_client, tenant)), on to the next getter
Return(result) ==
  /\ terraform_objects' = terraform_objects \o result
  /\ getter' = getter + 1
  /\ pc' = PcAt(getter + 1)
  /\ exclusive_start_key' = None /\ objs' = << >> /\ idx' = 0
  /\ doc' = M(EmptyMap) /\ edges' = << >> /\ edges_json' = M(EmptyMap)

\* a slip: the exception is noted and the run goes on where it was
Raise_Swallowed(e) == pc' = pc /\ err' = e

\* an exception leaves terrafy(): nothing catches it
Raise(e) == pc' = "failed" /\ err' = e

MainJson ==
  M("terraform" :>
      M(("required_providers" :>
           M("echostream" :> M(("source" :> Text("Echo-Stream/echostream"))
                               @@ ("version" :> Text(">=1.4.4")))))
        @@ ("required_version" :> Text(">=1.5.7"))))

ProviderJson == M("provider" :> M("echostream" :> M(EmptyMap)))

\* __process_main
ProcessMain ==
  /\ pc = "main"
  /\ fs' = WriteDoc(WriteDoc(fs, "main.tf.json", MainJson), "provider.tf.json", ProviderJson)
  /\ log' = log \o << Wrote("main.tf.json"), Wrote("provider.tf.json") >>
  /\ Return(<< >>)
  /\ UNCHANGED << service, registry, err, normVars, mergeVars >>

\* a slip: the owner is not left out
Kept_Owner(role) == Truthy(role)

\* (role := data.get("role")) and role != "owner"
Kept(role) == Truthy(role) /\ role # W("owner")

RECURSIVE TenantUsers(_, _, _)
\* for data in list(data.get("users", [])):
\*     if (role := data.get("role")) and role != "owner":
\*         tenant_users.append(resource_factory(data))
TenantUsers(users, reg, made) ==
  IF users = << >> THEN [ ok |-> TRUE, objs |-> made ]
  ELSE LET data == Head(users).v
           role == Get(data, "role")
       IN  IF Kept(role)
             THEN LET o == Factory("resource", data, reg)
                  IN  IF ~o.ok THEN o
                      ELSE TenantUsers(Tail(users), reg, Append(made, o.obj))
             ELSE TenantUsers(Tail(users), reg, made)

\* tenant_users encoded and merged: tenant-users.tf.json written, and
\* return [tenant_resource] + tenant_users
TenantFinished(tenant, users, enc) ==
  IF ~enc.ok
    THEN [ ok |-> FALSE, err |-> enc.err, fs |-> enc.fs,
           writes |-> << Wrote("tenant.tf.json") >> ]
  ELSE [ ok |-> TRUE, fs |-> WriteDoc(enc.fs, "tenant-users.tf.json", enc.doc),
         objs |-> << tenant >> \o users,
         writes |-> << Wrote("tenant.tf.json"), Wrote("tenant-users.tf.json") >> ]

\* the loop over data.get("users", []) done, tu being its result
TenantListed(reg, tenant, files, tu) ==
  IF ~tu.ok
    THEN [ ok |-> FALSE, err |-> tu.err, fs |-> files,
           writes |-> << Wrote("tenant.tf.json") >> ]
  ELSE TenantFinished(tenant, tu.objs,
                      EncodeAll(tu.objs, reg, files, M(EmptyMap), << >>))

\* list(data.get("users", [])) and the loop over it
UsersOf(data, reg) ==
  IF "users" \notin DOMAIN data THEN TenantUsers(<< >>, reg, << >>)
  ELSE IF data["users"].t = "list" THEN TenantUsers(data["users"].v, reg, << >>)
  ELSE Err("TypeError", Text("object is not iterable"))

\* json.dump(obj=tenant_resource.encode()) into the opened tenant.tf.json
TenantEncoded(data, reg, tenant, e) ==
  IF ~e.ok THEN [ ok |-> FALSE, err |-> e.err, fs |-> e.fs, writes |-> << >> ]
  ELSE TenantListed(reg, tenant, WriteDoc(e.fs, "tenant.tf.json", e.v), UsersOf(data, reg))

\* tenant_resource = resource_factory(data); with open("tenant.tf.json", "wt")
TenantMade(data, reg, files, made) ==
  IF ~made.ok THEN [ ok |-> FALSE, err |-> made.err, fs |-> files, writes |-> << >> ]
  ELSE TenantEncoded(data, reg, made.obj,
                     Encode(made.obj, reg,
                            [ files EXCEPT !.files = Put(@, "tenant.tf.json", S(<< >>)) ]))

\* __process_tenant_and_tenant_users after the query: [ok, fs, objs, writes]
\* or [ok, err, fs, writes]
TenantRun(data, reg, files) == TenantMade(data, reg, files, Factory("resource", data, reg))

\* the getter returns, or the exception it raised leaves terrafy()
TenantReturns(r) ==
  /\ fs' = r.fs
  /\ log' = Append(log, Query("tenant", None)) \o r.writes
  /\ IF r.ok
       THEN Return(r.objs) /\ err' = err
       ELSE /\ Raise(r.err)
            /\ UNCHANGED << getter, exclusive_start_key, objs, idx, doc, edges,
                            edges_json, terraform_objects >>

\* __process_tenant_and_tenant_users
ProcessTenantAndTenantUsers ==
  /\ pc = "tenant"
  /\ TenantReturns(TenantRun(service.tenant, registry, fs))
  /\ UNCHANGED << service, registry, normVars, mergeVars >>

\* the objects of the page built: the next call, or the end of the listing
PageMade(kind, result, made) ==
  /\ log' = Append(log, Query(kind, exclusive_start_key))
  /\ registry' = made.reg
  /\ IF ~made.ok
       THEN Raise(made.err) /\ UNCHANGED << exclusive_start_key, objs, idx >>
       ELSE /\ objs' = objs \o made.objs
            /\ err' = err
            /\ IF Continues(result)
                 THEN /\ exclusive_start_key' = NextKey(result)
                      /\ pc' = "list" /\ idx' = idx
                 ELSE /\ exclusive_start_key' = exclusive_start_key
                      /\ pc' = "encode" /\ idx' = 1

\* result = session.execute(query, ...)["List..."]
PageListed(kind, result) ==
  PageMade(kind, result, MakeAll(kind, result["echos"].v, registry, << >>))

\* one call of list_<kind>(exclusive_start_key): the query, the objects of
\* the page built (and registered), then the next call or the end of the
\* listing.  objs + list_<kind>(key) puts each page after the ones before.
ListPage ==
  /\ pc = "list"
  /\ QueriesOf(Getters[getter]) < MaxPages + 2
  /\ PageListed(Getters[getter],
                Respond(service.pages[Getters[getter]], exclusive_start_key))
  /\ UNCHANGED << service, getter, doc, edges, edges_json, terraform_objects, fs,
                  normVars, mergeVars >>

\* session.execute raises (transport or server error): nothing catches it
QueryFails ==
  /\ pc \in { "list", "tenant" }
  /\ QueriesOf(Getters[getter]) < MaxPages + 2
  /\ log' = Append(log, Query(IF pc = "tenant" THEN "tenant" ELSE Getters[getter],
                              exclusive_start_key))
  /\ Raise(Err("TransportError", Text("query failed")).err)
  /\ UNCHANGED << service, getter, exclusive_start_key, objs, idx, doc, edges,
                  edges_json, terraform_objects, registry, fs, normVars, mergeVars >>

\* node.get("sendEdges", []) as the for statement iterates it
SendEdgesOf(self) ==
  IF self.module = "none" \/ "sendEdges" \notin DOMAIN self.data THEN Ok(<< >>)
  ELSE IF self.data["sendEdges"].t = "list" THEN Ok(self.data["sendEdges"].v)
  ELSE Err("TypeError", Text("object is not iterable"))

\* the loop over the node's sendEdges, e being what node.encode() gave
EdgesOf(kind, e, send) ==
  IF e.ok /\ kind = "nodes_and_edges" /\ send.ok
    THEN SendEdges(send.v, registry, e.fs, edges, edges_json, e.lookups)
    ELSE [ ok |-> e.ok /\ (kind # "nodes_and_edges" \/ send.ok),
           err |-> IF ~e.ok THEN e.err ELSE IF ~send.ok THEN send.err ELSE None,
           edges |-> edges, doc |-> edges_json, fs |-> e.fs, lookups |-> e.lookups ]

\* the turn done, se being the state the edge loop left
Turned(e, se) ==
  /\ fs' = se.fs
  /\ log' = log \o se.lookups
  /\ doc' = IF e.ok THEN Merge(doc, e.v) ELSE doc
  /\ edges' = se.edges
  /\ edges_json' = se.doc
  /\ IF se.ok THEN pc' = pc /\ err' = err /\ idx' = idx + 1
     ELSE Raise(se.err) /\ idx' = idx

Encoded(kind, e, send) == Turned(e, EdgesOf(kind, e, send))

\* one turn of  for obj in objs: doc = always_merger.merge(doc, obj.encode())
\* and, for a node, the loop over its sendEdges
EncodeNext ==
  /\ pc = "encode" /\ idx <= Len(objs)
  /\ Encoded(Getters[getter], Encode(objs[idx], registry, fs), SendEdgesOf(objs[idx]))
  /\ UNCHANGED << service, getter, exclusive_start_key, objs, terraform_objects,
                  registry, normVars, mergeVars >>

\* the document(s) of the kind written, the getter returns its objects
WriteDocs ==
  /\ pc = "encode" /\ idx > Len(objs)
  /\ LET kind == Getters[getter]
     IN  IF kind = "nodes_and_edges"
           THEN /\ fs' = WriteDoc(WriteDoc(fs, "nodes.tf.json", doc), "edges.tf.json", edges_json)
                /\ log' = log \o << Wrote("nodes.tf.json"), Wrote("edges.tf.json") >>
                /\ Return(objs \o edges)
           ELSE /\ fs' = WriteDoc(fs, DocFile(kind), doc)
                /\ log' = Append(log, Wrote(DocFile(kind)))
                /\ Return(objs)
  /\ UNCHANGED << service, registry, err, normVars, mergeVars >>

\* subprocess.run([cli, "init"], capture_output=True, check=True)
CliInit ==
  /\ pc = "init"
  /\ log' = Append(log, Cli(<< "init" >>))
  /\ pc' = "tfstate"
  /\ UNCHANGED << service, getter, exclusive_start_key, objs, idx, doc, edges,
                  edges_json, terraform_objects, registry, fs, err, normVars, mergeVars >>

\* a slip: the state file is left as it was found
ClearState_Kept ==
  /\ pc = "tfstate"
  /\ pc' = "import" /\ idx' = 1
  /\ UNCHANGED << service, getter, exclusive_start_key, objs, doc, edges, edges_json,
                  terraform_objects, registry, fs, log, err, normVars, mergeVars >>

\* if os.path.exists("terraform.tfstate"): outputs and resources emptied
ClearState ==
  /\ pc = "tfstate"
  /\ fs' = IF "terraform.tfstate" \in DOMAIN fs.files
             THEN [ fs EXCEPT !.files["terraform.tfstate"] =
                      M([ @.v EXCEPT !["outputs"] = M(EmptyMap), !["resources"] = L(<< >>) ]) ]
             ELSE fs
  /\ pc' = "import" /\ idx' = 1
  /\ UNCHANGED << service, getter, exclusive_start_key, objs, doc, edges, edges_json,
                  terraform_objects, registry, log, err, normVars, mergeVars >>

\* a slip: every object the getters returned is taken for a Resource
IsResource_Any(obj) == obj.module \in { "resource", "data" }

\* isinstance(obj, Resource)
IsResource(obj) == obj.module = "resource"

\* one turn of  for obj in terraform_objects: a Resource is imported with
\* [cli, "import", obj.address, obj.identity]; terraform records it in
\* terraform.tfstate, keeping the state it replaces, if any, as the backup
Import ==
  /\ pc = "import" /\ idx <= Len(terraform_objects)
  /\ LET obj == terraform_objects[idx]
         adr == Address(obj)
         id  == Identity(obj)
     IN  IF ~IsResource(obj)
           THEN UNCHANGED << pc, err, log, fs >>
         ELSE IF ~adr.ok THEN Raise(adr.err) /\ UNCHANGED << log, fs >>
         ELSE IF ~id.ok THEN Raise(id.err) /\ UNCHANGED << log, fs >>
         ELSE /\ log' = Append(log, Cli(<< "import", adr.v, id.v >>))
              /\ fs' = [ fs EXCEPT !.files =
                           LET old == Get(fs.files, "terraform.tfstate")
                               had == IF old.t = "dict" THEN old.v["resources"].v ELSE << >>
                               new == Put(@, "terraform.tfstate",
                                          M(("outputs" :> M(EmptyMap))
                                            @@ ("resources" :> L(Append(had, Text(adr.v))))))
                           IN  IF old.t = "dict"
                                 THEN Put(new, "terraform.tfstate.backup", old)
                                 ELSE new ]
              /\ UNCHANGED << pc, err >>
  /\ idx' = IF pc' = "failed" THEN idx ELSE idx + 1
  /\ UNCHANGED << service, getter, exclusive_start_key, objs, doc, edges, edges_json,
                  terraform_objects, registry, normVars, mergeVars >>

\* a CLI command exits non-zero: CalledProcessError, which the import loop
\* re-raises as Exception("Error importing ...")
CliFails ==
  /\ \/ pc = "init"
     \/ pc = "import" /\ idx <= Len(terraform_objects) /\ IsResource(terraform_objects[idx])
  /\ log' = Append(log, Cli(IF pc = "init" THEN << "init" >>
                            ELSE << "import", Address(terraform_objects[idx]).v,
                                    Identity(terraform_objects[idx]).v >>))
  /\ Raise([ exc |-> IF pc = "init" THEN "CalledProcessError" ELSE "Exception",
             args |-> << Text("exit status 1") >> ])
  /\ UNCHANGED << service, getter, exclusive_start_key, objs, idx, doc, edges,
                  edges_json, terraform_objects, registry, fs, normVars, mergeVars >>

\* os.remove("terraform.tfstate.backup"), then [cli, "plan"]
Plan ==
  /\ pc = "import" /\ idx > Len(terraform_objects)
  /\ IF "terraform.tfstate.backup" \in DOMAIN fs.files
       THEN /\ fs' = [ fs EXCEPT !.files = Without(@, "terraform.tfstate.backup") ]
            /\ log' = Append(log, Cli(<< "plan" >>))
            /\ pc' = "done" /\ err' = err
       ELSE /\ Raise(Err("FileNotFoundError", Text("terraform.tfstate.backup")).err)
            /\ UNCHANGED << fs, log >>
  /\ UNCHANGED << service, getter, exclusive_start_key, objs, idx, doc, edges,
                  edges_json, terraform_objects, registry, normVars, mergeVars >>

Next ==
  \/ ProcessMain \/ ProcessTenantAndTenantUsers
  \/ ListPage \/ QueryFails \/ EncodeNext \/ WriteDocs
  \/ CliInit \/ ClearState \/ Import \/ CliFails \/ Plan

Spec == Init /\ [][Next]_vars

\* a listing that is under way goes on: a call of list_<kind> in progress
\* gets its answer, a page or an error
FairSpec == Spec /\ WF_vars(QueryFails \/ ListPage)

(***************************************************************************)
(* Properties of the run.                                                  *)
(***************************************************************************)
\* the positions of the log holding registry lookups
Lookups == { i \in DOMAIN log : log[i].ev = "lookup" }

\* the queries sent for a listing, in order
QueriesFor(kind) ==
  SelectSeq(log, LAMBDA e : e.ev = "query" /\ e.kind = kind)

RECURSIVE Flatten(_)
\* the items of a sequence of pages, one page after the other
Flatten(pages) ==
  IF pages = << >> THEN << >> ELSE Head(pages)["echos"].v \o Flatten(Tail(pages))

\* the payloads a listing returns, over all its pages
Returned(kind) ==
  LET items == Flatten(service.pages[kind])
  IN  { items[i].v : i \in DOMAIN items }

\* the names a listing returns
NamesOf(kind) == { d["name"] : d \in { x \in Returned(kind) : "name" \in DOMAIN x } }

\* the cross-reference fields of the payloads and the listing each points into
RefFields ==
  { << "argumentMessageType", "message_types" >>, << "returnMessageType", "message_types" >>,
    << "receiveMessageType", "message_types" >>, << "sendMessageType", "message_types" >>,
    << "app", "apps" >>, << "managedNodeType", "managed_node_types" >>,
    << "managedProcessor", "functions" >>, << "managedBitmapper", "functions" >>,
    << "managedApiAuthenticator", "functions" >>,
    << "source", "nodes_and_edges" >>, << "target", "nodes_and_edges" >>,
    << "kmsKey", "kms_keys" >> }

\* the payloads that carry cross-references: functions, managed node types,
\* nodes and the edges listed under the nodes
Referrers ==
  Returned("functions") \cup Returned("managed_node_types") \cup Returned("nodes_and_edges")
    \cup UNION { { d["sendEdges"].v[i].v : i \in DOMAIN d["sendEdges"].v }
                 : d \in { x \in Returned("nodes_and_edges") :
                             "sendEdges" \in DOMAIN x /\ x["sendEdges"].t = "list" } }

\* every cross-reference of the upstream data names an entity that the
\* listing it points into returns
Closed ==
  \A d \in Referrers : \A f \in RefFields :
    (f[1] \in DOMAIN d /\ d[f[1]].t = "dict") => d[f[1]].v["name"] \in NamesOf(f[2])

\* C1: on upstream data whose cross-references all name listed entities,
\* every registry lookup made while attributes are computed hits.
C1_LookupsHit == Closed => \A i \in Lookups : log[i].hit

C3_HitGivesToken ==
  \A i \in Lookups :
    log[i].hit =>
      /\ log[i].ref.t = "ref"
      /\ log[i].ref.obj = registry[log[i].bucket][log[i].key]
      /\ ReferenceEncode(log[i].ref)
           = "${" \o Address(registry[log[i].bucket][log[i].key]).v \o ".name}"

\* the objects the run holds: those returned by the getters, those listed
\* and those registered
Held ==
  { terraform_objects[i] : i \in DOMAIN terraform_objects }
    \cup { objs[i] : i \in DOMAIN objs }
    \cup UNION { { registry[b][n] : n \in DOMAIN registry[b] } : b \in BucketNames }

\* objectType + "." + localIdentifier of an object that has a local name
TypeDotName(o) == ObjectType(o) \o "." \o Str(LocalName(o).v)

\* C4: the address of a resource is objectType + "." + localIdentifier,
\* that of a data source "data." + objectType + "." + localIdentifier; a
\* resource is imported under this address.
C4_Address ==
  /\ \A o \in Held :
       (o.module # "none" /\ LocalName(o).ok) =>
         Address(o).v = IF o.module = "resource" THEN TypeDotName(o)
                        ELSE "data." \o TypeDotName(o)
  /\ \A i \in DOMAIN log :
       (log[i].ev = "cli" /\ log[i].args[1] = "import") =>
         \E o \in Held : o.module = "resource" /\ log[i].args[2] = TypeDotName(o)

\* a resource and a data source are held and a resource has been imported
C4_Witness ==
  /\ \E o \in Held : o.module = "data" /\ LocalName(o).ok
  /\ \E i \in DOMAIN log : log[i].ev = "cli" /\ log[i].args[1] = "import"

\* C4 as stated: the address of a resource starts with "resource."
C4_Original ==
  \A o \in Held :
    (o.module # "none" /\ LocalName(o).ok) =>
      Address(o).v = IF o.module = "resource" THEN "resource." \o TypeDotName(o)
                     ELSE "data." \o TypeDotName(o)

\* the required keys of its class that the payload of an object lacks
MissingKeys(o) ==
  IF o.module # "resource" THEN { }
  ELSE { k \in Range(AttributeKeys(o.module, o.class)[1]) : k \notin DOMAIN o.data }

\* C5: when the run fails encoding a resource whose payload lacks a required
\* key, the error is the KeyError of a missing required key and no artifact
\* directory of the resource has been made.
C5_NoWritesBeforeError ==
  (pc = "failed" /\ idx \in DOMAIN objs /\ MissingKeys(objs[idx]) # { }) =>
    /\ err.exc = "KeyError"
    /\ \E k \in MissingKeys(objs[idx]) : err.args = << Text(k) >>
    /\ LocalName(objs[idx]).ok => ArtifactsPath(objs[idx]) \notin fs.dirs

\* a response carries a non-empty continuation token
HasToken(page) ==
  /\ "lastEvaluatedKey" \in DOMAIN page
  /\ page["lastEvaluatedKey"].t = "str"
  /\ page["lastEvaluatedKey"].v # << >>

\* C6: while a listing of k pages is under way or just done, n <= k queries
\* have been sent for it, the first without a key and each later one with
\* the lastEvaluatedKey of the page before; the objects built are those of
\* the items of the first n pages, in the order served, duplicates kept;
\* when the listing is done n = k.
C6_Pagination ==
  pc \in { "list", "encode" } =>
    LET pages == service.pages[Getters[getter]]
        qs    == QueriesFor(Getters[getter])
        items == Flatten(SubSeq(pages, 1, Len(qs)))
    IN  /\ Len(qs) <= Len(pages)
        /\ pc = "encode" => Len(qs) = Len(pages)
        /\ Len(qs) >= 1 => qs[1].key.t = "none"
        /\ \A j \in 2..Len(qs) : qs[j].key = pages[j - 1]["lastEvaluatedKey"]
        /\ Len(objs) = Len(items)
        /\ \A m \in DOMAIN objs : objs[m].module # "none" => objs[m].data = items[m].v

\* three pages of KMS keys listed: the second key of the first page comes
\* again on the second page, and the order is not that of the names
C6_Witness ==
  /\ pc = "encode" /\ Getters[getter] = "kms_keys"
  /\ Len(QueriesFor("kms_keys")) = 3 /\ Len(objs) = 3
  /\ objs[1].data["name"] = W("Key 2")
  /\ objs[2].data["name"] = W("Key 1")
  /\ objs[3].data["name"] = W("Key 1")

\* no query of a listing follows a response of it without a continuation token
NoQueryAfterLast ==
  \A kind \in Listings :
    LET qs == QueriesFor(kind)
    IN  \A j \in 1..(Len(qs) - 1) :
          HasToken(Respond(service.pages[kind], qs[j].key))

\* no query is sent twice, and a query that fails is the last thing the run does
NoRetry ==
  /\ \A i, j \in DOMAIN log :
       (i < j /\ log[i].ev = "query" /\ log[j].ev = "query") => log[i] # log[j]
  /\ ("exc" \in DOMAIN err /\ err.exc = "TransportError") =>
       pc = "failed" /\ log[Len(log)].ev = "query"

\* C7: a listing that is under way ends (with its objects or with the
\* error of a query); no query follows a response without a continuation
\* token, and no query is sent again.
C7_Terminates ==
  /\ [](pc = "list" => <>(pc # "list"))
  /\ []NoQueryAfterLast
  /\ []NoRetry

\* a listing of several pages has ended on a response whose
\* lastEvaluatedKey is the empty string
C7_Witness ==
  /\ "kms-keys.tf.json" \in DOMAIN fs.files
  /\ Len(service.pages["kms_keys"]) >= 2
  /\ Len(QueriesFor("kms_keys")) = Len(service.pages["kms_keys"])
  /\ Get(service.pages["kms_keys"][Len(service.pages["kms_keys"])], "lastEvaluatedKey")
       = S(<< >>)

(***************************************************************************)
(* The import commands of a run, as the CLI saw them.                      *)
(***************************************************************************)
\* the [cli, "import", address, identity] commands run so far, in order
Imports == SelectSeq(log, LAMBDA e : e.ev = "cli" /\ e.args[1] = "import")

\* the Resource objects the getters returned, in order
Resources == SelectSeq(terraform_objects, IsResource)

\* the name a cross-reference field of a payload carries
NameIn(data, key) == data[key].v["name"].v

\* C11: the import command of every edge passes source name + "|" + target
\* name as the identity, whatever else the payload holds, and addresses the
\* edge by the local name of that identity; the edge is under that local
\* name in the edges document.
C11_EdgeIdentity ==
  /\ \A k \in 1..Len(Imports) :
       Resources[k].class = "Edge" =>
         LET d  == Resources[k].data
             id == NameIn(d, "source") \o << "|" >> \o NameIn(d, "target")
         IN  /\ Imports[k].args[3] = S(id)
             /\ Imports[k].args[2] = "echostream_edge." \o Str(ConvertToLocalName(id))
  /\ \A k \in DOMAIN edges :
       LET d  == edges[k].data
           id == NameIn(d, "source") \o << "|" >> \o NameIn(d, "target")
       IN  (k < Len(edges) \/ pc # "failed") =>
             Str(ConvertToLocalName(id))
               \in DOMAIN edges_json.v["resource"].v["echostream_edge"].v

\* the edge n1 -> n2 was imported as "n1|n2" under echostream_edge.n1_n2
C11_Witness ==
  \E k \in 1..Len(Imports) :
    /\ Resources[k].class = "Edge"
    /\ Imports[k].args[3] = S(<< "n", "1", "|", "n", "2" >>)
    /\ Imports[k].args[2] = "echostream_edge.n1_n2"

\* the attributes the edges document holds under a local name, if any
EdgeEntries ==
  IF "resource" \in DOMAIN edges_json.v
    THEN edges_json.v["resource"].v["echostream_edge"].v
    ELSE EmptyMap

\* the local name the edge of a payload goes under
EdgeLocal(d) ==
  Str(ConvertToLocalName(NameIn(d, "source") \o << "|" >> \o NameIn(d, "target")))

\* the nodes an edge joins are registered, and so is its KMS key if it has one
EdgeResolvable(d) ==
  /\ d["source"].v["name"] \in DOMAIN registry["NODES"]
  /\ d["target"].v["name"] \in DOMAIN registry["NODES"]
  /\ Truthy(Get(d, "kmsKey")) => d["kmsKey"].v["name"] \in DOMAIN registry["KMS_KEYS"]

\* C12: an edge whose nodes (and KMS key, if any) are registered is encoded,
\* with or without a kmsKey: the run does not fail on it, and its attributes
\* are references to the registered source and target, a reference to the
\* registered key when the payload has a kmsKey, and description and
\* max_receive_count when the payload has them.
C12_EdgeEncodes ==
  /\ \A k \in DOMAIN edges :
       LET d == edges[k].data
       IN  IF EdgeLocal(d) \in DOMAIN EdgeEntries
             THEN LET a == EdgeEntries[EdgeLocal(d)].v
                  IN  /\ a["source"] = Reference(registry["NODES"][d["source"].v["name"]])
                      /\ a["target"] = Reference(registry["NODES"][d["target"].v["name"]])
                      /\ Truthy(Get(d, "kmsKey")) =>
                           /\ "kmskey" \in DOMAIN a
                           /\ a["kmskey"] =
                                Reference(registry["KMS_KEYS"][d["kmsKey"].v["name"]])
                      /\ Get(d, "description").t # "none" =>
                           /\ "description" \in DOMAIN a
                           /\ a["description"] = d["description"]
                      /\ Get(d, "maxReceiveCount").t # "none" =>
                           /\ "max_receive_count" \in DOMAIN a
                           /\ a["max_receive_count"] = d["maxReceiveCount"]
             ELSE /\ pc = "failed" /\ k = Len(edges)
                  /\ ~EdgeResolvable(d)

\* the value of the payload's sequentialProcessing, false when absent or null
SequentialOf(d) ==
  IF Get(d, "sequentialProcessing").t = "none" THEN B(FALSE)
  ELSE d["sequentialProcessing"]

SequentialKinds == { "echostream_processor_node", "echostream_cross_tenant_sending_node" }

\* C13: every processor node and cross-tenant sending node that was encoded
\* has sequential_processing among its attributes, false when the payload's
\* sequentialProcessing is absent or null and the payload's value otherwise;
\* every such node in the nodes document written has the key.
C13_SequentialProcessing ==
  /\ (pc \in { "encode", "failed" } /\ getter \in DOMAIN Getters
        /\ Getters[getter] = "nodes_and_edges") =>
       \A k \in 1..(idx - 1) :
         (k \in DOMAIN objs /\ ObjectType(objs[k]) \in SequentialKinds
            /\ objs[k].module = "resource") =>
           LET a == doc.v["resource"].v[ObjectType(objs[k])]
                      .v[Str(ConvertToLocalName(objs[k].data["name"].v))].v
           IN  /\ "sequential_processing" \in DOMAIN a
               /\ a["sequential_processing"] = SequentialOf(objs[k].data)
  /\ "nodes.tf.json" \in DOMAIN fs.files =>
       LET res == IF "resource" \in DOMAIN fs.files["nodes.tf.json"].v
                    THEN fs.files["nodes.tf.json"].v["resource"].v ELSE EmptyMap
       IN  \A ty \in DOMAIN res \cap SequentialKinds :
             \A ln \in DOMAIN res[ty].v :
               /\ "sequential_processing" \in DOMAIN res[ty].v[ln].v
               /\ res[ty].v[ln].v["sequential_processing"].t = "bool"

\* the nodes document holds the processor node n1, whose payload says true,
\* and n2, whose payload has no sequentialProcessing
C13_Witness ==
  /\ "nodes.tf.json" \in DOMAIN fs.files
  /\ "resource" \in DOMAIN fs.files["nodes.tf.json"].v
  /\ "echostream_processor_node" \in DOMAIN fs.files["nodes.tf.json"].v["resource"].v
  /\ LET ps == fs.files["nodes.tf.json"].v["resource"].v["echostream_processor_node"].v
         n2 == service.pages["nodes_and_edges"][1]["echos"].v[2].v
     IN  /\ DOMAIN ps = { "n1", "n2" }
         /\ ps["n1"].v["sequential_processing"] = B(TRUE)
         /\ ps["n2"].v["sequential_processing"] = B(FALSE)
         /\ "sequentialProcessing" \notin DOMAIN n2

\* the kinds the two modules define a class for
Variants ==
  (ResourceTypes \cup DataSourceTypes)
    \ { "FunctionResource", "NodeDataSource", "FunctionDataSource" }

\* the discriminator of a payload names no kind
Unknown(d) == d["__typename"].t # "str" \/ Str(d["__typename"].v) \notin Variants

\* the page of the listing query the run sent last
LastPageOf ==
  LET q == log[Len(log)]
  IN  Respond(service.pages[q.kind], q.key)["echos"].v

\* C14: a payload whose discriminator names no kind makes no listing fail:
\* the factory gives None for it and nothing is registered for it; a node
\* payload that only resources.py knows becomes a resource.
C14_UnknownGivesNone ==
  /\ (pc = "failed" /\ idx = 0 /\ log # << >> /\ log[Len(log)].ev = "query"
        /\ log[Len(log)].kind \in Listings /\ err.exc # "TransportError") =>
       \E k \in DOMAIN LastPageOf :
         ~Unknown(LastPageOf[k].v) /\ "name" \notin DOMAIN LastPageOf[k].v
  /\ (pc \in { "list", "encode" }) =>
       LET kind  == Getters[getter]
           items == Flatten(SubSeq(service.pages[kind], 1, Len(QueriesFor(kind))))
       IN  \A k \in DOMAIN objs :
             /\ Unknown(items[k].v) =>
                  /\ objs[k] = NoneObj
                  /\ \A b \in BucketNames : \A n \in DOMAIN registry[b] :
                       registry[b][n].data # items[k].v
             /\ (kind = "nodes_and_edges"
                   /\ ~Unknown(items[k].v)
                   /\ Str(items[k].v["__typename"].v) \notin DataSourceTypes) =>
                  /\ objs[k].module = "resource"
                  /\ objs[k].class = Str(items[k].v["__typename"].v)

\* the kinds whose listing looks at the system flag, and their buckets
SystemKinds ==
  [ message_types |-> "MESSAGE_TYPES", functions |-> "FUNCTIONS",
    managed_node_types |-> "MANAGED_NODE_TYPES" ]

\* the payload's system flag is true
IsSystem(d) == "system" \in DOMAIN d /\ d["system"] = B(TRUE)

\* the addresses of the data sources the getters returned
DataAddresses ==
  { Address(terraform_objects[k]).v :
      k \in { j \in DOMAIN terraform_objects : terraform_objects[j].module = "data" } }

\* C15: in the listings of message types, functions and managed node types a
\* payload whose system flag is true becomes a data source, registered in
\* the bucket of its kind, and encoded under "data"; a payload whose flag is
\* false, null or absent becomes a resource; no data source is ever imported.
C15_SystemIsData ==
  /\ (pc \in { "list", "encode" } /\ Getters[getter] \in DOMAIN SystemKinds) =>
       LET kind  == Getters[getter]
           items == Flatten(SubSeq(service.pages[kind], 1, Len(QueriesFor(kind))))
       IN  \A k \in DOMAIN objs :
             ~Unknown(items[k].v) =>
               IF IsSystem(items[k].v)
                 THEN /\ objs[k].module = "data"
                      /\ ObjectClass(objs[k]) = "data"
                      /\ registry[SystemKinds[kind]][items[k].v["name"]] = objs[k]
                      /\ (pc = "encode" /\ k < idx) =>
                           Str(ConvertToLocalName(items[k].v["name"].v))
                             \in DOMAIN doc.v["data"].v[ObjectType(objs[k])].v
                 ELSE /\ objs[k].module = "resource"
                      /\ ObjectClass(objs[k]) = "resource"
  /\ \A i \in 1..Len(Imports) : Imports[i].args[2] \notin DataAddresses

\* the system message type echo.json is a registered data source, the
\* message type Mt-1 whose flag is false is a resource, and the run has
\* imported resources
C15_Witness ==
  /\ Len(Imports) >= 3
  /\ W("echo.json") \in DOMAIN registry["MESSAGE_TYPES"]
  /\ registry["MESSAGE_TYPES"][W("echo.json")].module = "data"
  /\ registry["MESSAGE_TYPES"][W("Mt-1")].module = "resource"
  /\ Get(registry["MESSAGE_TYPES"][W("Mt-1")].data, "system") = B(FALSE)

\* the characters a local identifier is made of
LocalChars == LowerChars \cup DigitChars \cup { "_" }

\* C16: every resource other than the tenant is imported under
\* objectType + "." + the normalised form of the identity passed with it,
\* and the local name of every such resource the getters returned is made
\* of lower-case letters, digits and underscores only.
C16_LocalIdentifier ==
  /\ \A k \in 1..Len(Imports) :
       Resources[k].class # "Tenant" =>
         Imports[k].args[2] =
           ObjectType(Resources[k]) \o "." \o Str(ConvertToLocalName(Imports[k].args[3].v))
  /\ \A k \in DOMAIN Resources :
       Resources[k].class # "Tenant" =>
         \A i \in DOMAIN LocalName(Resources[k]).v :
           LocalName(Resources[k]).v[i] \in LocalChars

\* the optional artifacts of a class of resources.py: << payload key, file
\* name, attribute >>
OptionalArtifacts(class) ==
  (IF class \in FunctionResources \cup { "MessageType", "ManagedNodeType" }
     THEN { << "readme", "readme.md", "readme" >> } ELSE {})
  \cup (IF class \in ConfigResources
          THEN { << "config", "config.json", "config" >> } ELSE {})
  \cup (IF class = "BitmapRouterNode"
          THEN { << "inlineBitmapper", "inline_bitmapper.py", "inline_bitmapper" >> }
          ELSE {})
  \cup (IF class \in { "CrossTenantSendingNode", "ProcessorNode" }
          THEN { << "inlineProcessor", "inline_processor.py", "inline_processor" >> }
          ELSE {})
  \cup (IF class \in { "WebhookNode", "WebSubHubNode" }
          THEN { << "inlineApiAuthenticator", "inline_api_authenticator.py",
                    "inline_api_authenticator" >> }
          ELSE {})
  \cup (IF class = "ManagedNodeType"
          THEN { << "configTemplate", "config_template.json", "config_template" >> }
          ELSE {})

\* the mandatory artifacts of a class
MandatoryArtifacts(class) ==
  IF class \in FunctionResources THEN { << "code", "code.py", "code" >> }
  ELSE IF class = "MessageType"
    THEN { << "auditor", "auditor.py", "auditor" >>,
           << "bitmapperTemplate", "bitmapper_template.py", "bitmapper_template" >>,
           << "processorTemplate", "processor_template.py", "processor_template" >>,
           << "sampleMessage", "sample_message.txt", "sample_message" >> }
  ELSE {}

\* artifacts/{objectType}/{localIdentifier}/{fixedFileName} of a named entity
PathOf(o, file) ==
  "artifacts/" \o ObjectType(o) \o "/"
    \o Str(ConvertToLocalName(o.data["name"].v)) \o "/" \o file

\* the file-interpolation token of a path relative to the module
TokenOf(path) == Text("${file(\"${path.module}/" \o path \o "\")}")

\* the attributes the document being built holds for a named entity
EntryOf(o) ==
  LET e == doc.v[o.module].v[ObjectType(o)].v[Str(ConvertToLocalName(o.data["name"].v))]
  IN  IF e.t = "tuple" THEN e.v[1].v ELSE e.v

\* a listing getter is encoding its objects, or failed doing so
Encoding ==
  /\ pc \in { "encode", "failed" } /\ getter \in DOMAIN Getters
  /\ Getters[getter] \in Listings /\ idx >= 1

\* the key is in the payload with a value that is not null
Present(o, key) == Get(o.data, key).t # "none"

\* C17: for every resource a listing getter has encoded, an optional
\* artifact is on disk exactly when the payload has it, its file token is
\* among the attributes exactly when the file is on disk, and every
\* mandatory artifact is on disk and referenced; and an optional artifact
\* the payload has is on disk also for the resource whose encoding failed
\* after the artifacts were to be written.
C17_Artifacts ==
  Encoding =>
    /\ \A k \in 1..(idx - 1) :
         (k \in DOMAIN objs /\ objs[k].module = "resource"
            /\ objs[k].class # "ApiUser") =>
           /\ \A a \in OptionalArtifacts(objs[k].class) :
                /\ PathOf(objs[k], a[2]) \in DOMAIN fs.files <=> Present(objs[k], a[1])
                /\ a[3] \in DOMAIN EntryOf(objs[k])
                     <=> PathOf(objs[k], a[2]) \in DOMAIN fs.files
                /\ a[3] \in DOMAIN EntryOf(objs[k]) =>
                     EntryOf(objs[k])[a[3]] = TokenOf(PathOf(objs[k], a[2]))
           /\ \A a \in MandatoryArtifacts(objs[k].class) :
                /\ fs.files[PathOf(objs[k], a[2])] = objs[k].data[a[1]]
                /\ EntryOf(objs[k])[a[3]] = TokenOf(PathOf(objs[k], a[2]))
    /\ (pc = "failed" /\ idx \in DOMAIN objs /\ objs[idx].module = "resource"
          /\ objs[idx].class # "ApiUser" /\ "name" \in DOMAIN objs[idx].data
          /\ \A a \in MandatoryArtifacts(objs[idx].class) : a[1] \in DOMAIN objs[idx].data) =>
         \A a \in OptionalArtifacts(objs[idx].class) :
           Present(objs[idx], a[1]) => PathOf(objs[idx], a[2]) \in DOMAIN fs.files

\* the documents and the state files of the working directory
PlainFiles ==
  { "main.tf.json", "provider.tf.json", "tenant.tf.json", "tenant-users.tf.json",
    "api-users.tf.json", "message-types.tf.json", "functions.tf.json",
    "managed-node-types.tf.json", "kms-keys.tf.json", "apps.tf.json",
    "nodes.tf.json", "edges.tf.json", "terraform.tfstate",
    "terraform.tfstate.backup" }

\* the artifacts a class can have
ArtifactsOf(class) == OptionalArtifacts(class) \cup MandatoryArtifacts(class)

\* the resources constructed so far that can have artifacts
Carriers ==
  { o \in Range(terraform_objects) \cup Range(objs) :
      /\ o.module = "resource" /\ ArtifactsOf(o.class) # {}
      /\ o.class = "Tenant" \/ Get(o.data, "name").t = "str" }

\* artifacts/{objectType}/{localIdentifier}/{fixedFileName}, the tenant's
\* local identifier being "current"
PlaceOf(o, file) ==
  IF o.class = "Tenant" THEN "artifacts/echostream_tenant/current/" \o file
  ELSE PathOf(o, file)

\* the attribute maps the documents on disk hold for an entity
OnDisk(o) ==
  LET type  == ObjectType(o)
      local == IF o.class = "Tenant" THEN "current"
               ELSE Str(ConvertToLocalName(o.data["name"].v))
  IN  { fs.files[f].v["resource"].v[type].v[local].v :
          f \in { g \in DOMAIN fs.files \cap PlainFiles :
                    /\ fs.files[g].t = "dict"
                    /\ "resource" \in DOMAIN fs.files[g].v
                    /\ type \in DOMAIN fs.files[g].v["resource"].v
                    /\ local \in DOMAIN fs.files[g].v["resource"].v[type].v
                    /\ fs.files[g].v["resource"].v[type].v[local].t = "dict" } }

\* the places of the artifacts a resource can have
PlacesOf(o) == { PlaceOf(o, a[2]) : a \in ArtifactsOf(o.class) }

\* an artifact attribute of an attribute map is the file token of a place
\* where the file holds the payload value
Points(o, e, a, place) ==
  a[3] \in DOMAIN e =>
    /\ e[a[3]] = TokenOf(place)
    /\ place \in DOMAIN fs.files
    /\ fs.files[place] = o.data[a[1]]

\* C18: every artifact on disk is at artifacts/{objectType}/
\* {localIdentifier}/{fixedFileName} of a resource constructed in the run,
\* and every artifact attribute of an entity in a written document is the
\* file token of exactly that path relative to the module, where the file
\* holds the entity's payload value.
C18_ArtifactPaths ==
  /\ (DOMAIN fs.files \ PlainFiles) \subseteq UNION { PlacesOf(o) : o \in Carriers }
  /\ \A o \in Carriers : \A e \in OnDisk(o) : \A a \in ArtifactsOf(o.class) :
       Points(o, e, a, PlaceOf(o, a[2]))

\* functions.tf.json is written with the code and the readme of function
\* Fn.1 referenced as files of artifacts/echostream_processor_function/fn_1
C18_Witness ==
  /\ "functions.tf.json" \in DOMAIN fs.files
  /\ \E o \in Carriers :
       /\ o.class = "ProcessorFunction" /\ o.data["name"] = S(<< "F", "n", ".", "1" >>)
       /\ \E e \in OnDisk(o) :
            /\ e["code"] = Text("${file(\"${path.module}/artifacts/echostream_processor_function/fn_1/code.py\")}")
            /\ e["readme"] = Text("${file(\"${path.module}/artifacts/echostream_processor_function/fn_1/readme.md\")}")
       /\ "artifacts/echostream_processor_function/fn_1/code.py" \in DOMAIN fs.files
       /\ "artifacts/echostream_processor_function/fn_1/readme.md" \in DOMAIN fs.files

\* the payloads of a listing the run builds a Resource of: those without a
\* true system flag, and the nodes that are not of a data-source type
Managed(kind) ==
  SelectSeq(Flatten(service.pages[kind]),
            LAMBDA x : IF kind = "nodes_and_edges"
                         THEN Str(x.v["__typename"].v) \notin NodeDataSources
                         ELSE ~Truthy(Get(x.v, "system")))

\* the identities of a sequence of payloads, each read under one key
IdsOf(items, key) == [ i \in DOMAIN items |-> items[i].v[key] ]

RECURSIVE EdgeIdsOf(_)
\* source | target of every send edge of the nodes, node after node
EdgeIdsOf(nodes) ==
  IF nodes = << >> THEN << >>
  ELSE LET send == Get(Head(nodes).v, "sendEdges")
           mine == IF send.t = "list"
                     THEN [ i \in DOMAIN send.v |->
                              S(NameIn(send.v[i].v, "source") \o << "|" >>
                                  \o NameIn(send.v[i].v, "target")) ]
                     ELSE << >>
       IN  mine \o EdgeIdsOf(Tail(nodes))

\* the identities of the resources a whole run constructs of the upstream
\* data, in the order it constructs them
ExpectedIds ==
  << S(<< >>) >>
    \o IdsOf(SelectSeq(service.tenant["users"].v,
                       LAMBDA u : Truthy(Get(u.v, "role")) /\ u.v["role"] # W("owner")),
             "email")
    \o IdsOf(Managed("api_users"), "username")
    \o IdsOf(Managed("message_types"), "name")
    \o IdsOf(Managed("functions"), "name")
    \o IdsOf(Managed("managed_node_types"), "name")
    \o IdsOf(Managed("kms_keys"), "name")
    \o IdsOf(Managed("apps"), "name")
    \o IdsOf(Managed("nodes_and_edges"), "name")
    \o EdgeIdsOf(Flatten(service.pages["nodes_and_edges"]))

\* C19: once the getters are through, the import commands issued so far
\* are, one for one and in order, the resources the run constructed of the
\* upstream data, each with its address and its identity; a run that went
\* through the import step has issued one for every resource; and none has
\* the address of a data source.
C19_ImportsEveryResource ==
  getter > Len(Getters) =>
    /\ Len(Resources) = Len(ExpectedIds)
    /\ Len(Imports) <= Len(Resources)
    /\ \A k \in 1..Len(Imports) :
         /\ Imports[k].args[3] = ExpectedIds[k]
         /\ Imports[k].args = << "import", Address(Resources[k]).v, Identity(Resources[k]).v >>
    /\ pc = "import" =>
         Len(Imports) = Len(SelectSeq(SubSeq(terraform_objects, 1, idx - 1), IsResource))
    /\ pc = "done" => Len(Imports) = Len(ExpectedIds)
    /\ \A k \in DOMAIN terraform_objects :
         terraform_objects[k].module = "data" =>
           \A i \in 1..Len(Imports) : Imports[i].args[2] # Address(terraform_objects[k]).v

\* a run ended after importing the tenant, the user, the API user, the
\* message type, the function, the key, the two apps, two nodes and the
\* edge between them, while it had built data sources as well
C19_Witness ==
  /\ pc = "done"
  /\ Len(Imports) = 11
  /\ Imports[11].args = << "import", "echostream_edge.n1_n2", S(<< "n", "1", "|", "n", "2" >>) >>
  /\ Imports[10].args[3] = W("n2")
  /\ \E k \in DOMAIN terraform_objects : terraform_objects[k].module = "data"

\* the commands the run has given the CLI
Commands == SelectSeq(log, LAMBDA e : e.ev = "cli")

\* an error raised before the getters were through left no CLI command
\* behind; one raised later left no plan, and the import that failed, if
\* that was the error, is the last thing the run did
Aborted ==
  /\ err # None <=> pc = "failed"
  /\ (pc = "failed" /\ getter <= Len(Getters)) => Commands = << >>
  /\ (pc = "failed" /\ getter > Len(Getters)) =>
       /\ \A i \in DOMAIN Commands : Commands[i].args[1] # "plan"
       /\ err.exc = "Exception" =>
            /\ log[Len(log)] = Imports[Len(Imports)]
            /\ Len(Imports) <= Len(Resources)

\* C20: an error ends the run where it is raised: the run is in its failed
\* state exactly when an error was raised, no step at all (query, document,
\* artifact, init, import or plan) is taken once there is an error, and
\* what was done before bears it out: no CLI command when a getter raised,
\* no plan when a later step did, the failed import being the last command.
C20_ErrorAborts ==
  /\ []Aborted
  /\ [][err = None]_vars

\* the functions query failed after the message types document was
\* written: the run is over with that query the last thing it did
C20_Witness ==
  /\ pc = "failed" /\ err.exc = "TransportError"
  /\ getter \in DOMAIN Getters /\ Getters[getter] = "functions"
  /\ "message-types.tf.json" \in DOMAIN fs.files
  /\ "functions.tf.json" \notin DOMAIN fs.files
  /\ log[Len(log)].ev = "query"

\* the objects constructed so far that their class keys by name
Keyed ==
  { o \in Range(terraform_objects) \cup Range(objs) :
      o.module \in { "resource", "data" } /\ Bucket(o.module, o.class) # "none" }

\* every constructed object keyed by name is in its bucket under its name
\* (the object itself when no other of that bucket has the name); what a
\* bucket holds under a name is a constructed object of that name and
\* bucket, one the run still has unless a listing failed part way
Registered ==
  /\ \A o \in Keyed :
       LET b == Bucket(o.module, o.class)
       IN  /\ o.data["name"] \in DOMAIN registry[b]
           /\ registry[b][o.data["name"]] \in Keyed
           /\ (\A p \in Keyed : (Bucket(p.module, p.class) = b
                                   /\ p.data["name"] = o.data["name"]) => p = o)
                => registry[b][o.data["name"]] = o
  /\ \A b \in BucketNames : \A k \in DOMAIN registry[b] :
       /\ pc # "failed" => registry[b][k] \in Keyed
       /\ registry[b][k].data["name"] = k
       /\ Bucket(registry[b][k].module, registry[b][k].class) = b

\* a step removes no entry of a bucket, and a step of the encoding loop
\* leaves the six buckets as they are
OnlyAdded ==
  /\ \A b \in BucketNames : DOMAIN registry[b] \subseteq DOMAIN registry'[b]
  /\ pc = "encode" => registry' = registry

\* C21: an object of a kind keyed by name is registered in its bucket under
\* its name when it is constructed, resource or data source; entries are
\* added and never removed; encoding leaves the buckets unchanged.
C21_Registration ==
  /\ []Registered
  /\ [][OnlyAdded]_vars

\* message types are being encoded (one done) while the bucket holds the
\* resource Mt-1 and the data source echo.json, both constructed by the
\* listing
C21_Witness ==
  /\ pc = "encode" /\ idx = 2 /\ Getters[getter] = "message_types"
  /\ DOMAIN registry["MESSAGE_TYPES"] = { W("Mt-1"), W("echo.json") }
  /\ registry["MESSAGE_TYPES"][W("Mt-1")] = objs[1]
  /\ objs[1].module = "resource"
  /\ registry["MESSAGE_TYPES"][W("echo.json")] = objs[2]
  /\ objs[2].module = "data"
  /\ registry["KMS_KEYS"] = EmptyRegistry["KMS_KEYS"]

\* the tenant objects the run has returned
Tenants == { o \in Range(terraform_objects) : o.module = "resource" /\ o.class = "Tenant" }

\* C22: whatever GetTenant returned, the tenant's local name is "current"
\* and its identity the empty string: the tenant document holds the tenant
\* under "current" and nothing else, its config artifact is under
\* artifacts/echostream_tenant/current, and it is imported as
\* echostream_tenant.current with identity "".
C22_TenantSingleton ==
  /\ \A o \in Tenants :
       /\ LocalName(o) = Ok(<< "c", "u", "r", "r", "e", "n", "t" >>)
       /\ Identity(o) = Ok(S(<< >>))
       /\ o.data = service.tenant
  /\ "tenant.tf.json" \in DOMAIN fs.files =>
       /\ DOMAIN fs.files["tenant.tf.json"].v["resource"].v["echostream_tenant"].v
            = { "current" }
       /\ Truthy(Get(service.tenant, "config")) <=>
            "artifacts/echostream_tenant/current/config.json" \in DOMAIN fs.files
  /\ \A k \in 1..Len(Imports) :
       Resources[k].class = "Tenant" =>
         Imports[k].args = << "import", "echostream_tenant.current", S(<< >>) >>

\* a tenant whose payload has neither description nor config nor users was
\* imported as echostream_tenant.current with the empty identity
C22_Witness ==
  /\ service.tenant["description"] = None /\ service.tenant["users"] = L(<< >>)
  /\ Len(Imports) >= 1
  /\ Imports[1].args = << "import", "echostream_tenant.current", S(<< >>) >>
  /\ Tenants # {}

(***************************************************************************)
(* __init__.py: the check of the CLI's version at the start of terrafy().  *)
(***************************************************************************)
\* the decimal digits of a number below 100
Decimal(n) ==
  IF n < 10 THEN << DigitSeq[n + 1] >>
  ELSE << DigitSeq[(n \div 10) + 1], DigitSeq[(n % 10) + 1] >>

\* the first line [cli, "version"] prints: "<product> v<major>.<minor>.<patch>"
VersionLine(product, v) ==
  product \o << " ", "v" >> \o Decimal(v[1]) \o << "." >> \o Decimal(v[2])
    \o << "." >> \o Decimal(v[3])

\* needle in hay, of two Python strings
Contains(hay, needle) ==
  \E i \in 0..(Len(hay) - Len(needle)) :
    SubSeq(hay, i + 1, i + Len(needle)) = needle

\* re.match(r"^<product> v([0-9]\.[0-9]\.[0-9]).*$", line): group 1, or
\* << >> when the line does not match
VersionMatch(product, line) ==
  LET p == Len(product) + 2
  IN  IF /\ Len(line) >= p + 5
         /\ SubSeq(line, 1, p) = product \o << " ", "v" >>
         /\ line[p + 1] \in DigitChars /\ line[p + 2] = "."
         /\ line[p + 3] \in DigitChars /\ line[p + 4] = "."
         /\ line[p + 5] \in DigitChars
        THEN SubSeq(line, p + 1, p + 5)
        ELSE << >>

\* ord() of the characters a matched version is made of
Ord(c) == IF c = "." THEN 46 ELSE 48 + (CHOOSE d \in 0..9 : DigitSeq[d + 1] = c)

RECURSIVE StrGE(_, _)
\* a >= b of two Python strings
StrGE(a, b) ==
  IF b = << >> THEN TRUE
  ELSE IF a = << >> THEN FALSE
  ELSE IF Ord(Head(a)) # Ord(Head(b)) THEN Ord(Head(a)) > Ord(Head(b))
  ELSE StrGE(Tail(a), Tail(b))

\* not ((m := re.match(...)) and m.group(1) >= minimum): RuntimeError
ProductGate(product, minimum, line) ==
  LET m == VersionMatch(product, line)
  IN  IF m = << >>
        THEN Err("RuntimeError", Text("does not point to an executable of the product"))
      ELSE IF ~StrGE(m, minimum)
        THEN Err("RuntimeError", Text("version too old"))
      ELSE Ok(m)

\* the checks between subprocess.run([cli, "version"]) and the login
VersionGate(cli, returncode, line) ==
  IF returncode # 0 THEN Err("RuntimeError", Text("stderr"))
  ELSE IF Contains(cli, << "t", "e", "r", "r", "a", "f", "o", "r", "m" >>)
    THEN ProductGate(<< "T", "e", "r", "r", "a", "f", "o", "r", "m" >>,
                     << "1", ".", "3", ".", "5" >>, line)
  ELSE IF Contains(cli, << "t", "o", "f", "u" >>)
    THEN ProductGate(<< "O", "p", "e", "n", "T", "o", "f", "u" >>,
                     << "1", ".", "6", ".", "2" >>, line)
  ELSE Ok(<< >>)

\* the CLIs tried: terraform, /bin/tofu
GateClis ==
  { << "t", "e", "r", "r", "a", "f", "o", "r", "m" >>,
    << "/", "b", "i", "n", "/", "t", "o", "f", "u" >> }

\* the versions the CLI may report
GateVersions == { << a, b, c >> : a \in { 0, 1, 2 }, b \in { 0, 3, 6, 10 }, c \in { 2, 5, 10 } }

\* a CLI, the product that answers under that name, its version and exit status
GateInputs ==
  [ cli : GateClis,
    product : { << "T", "e", "r", "r", "a", "f", "o", "r", "m" >>,
                << "O", "p", "e", "n", "T", "o", "f", "u" >> },
    version : GateVersions, returncode : { 0, 1 } ]

GateInit == /\ RunIdle /\ MergeIdle
            /\ n_in \in GateInputs /\ n_fn = "none" /\ n_out = << >>

\* version_check = subprocess.run([cli, "version"]) and the checks on it
CheckVersion ==
  /\ n_fn = "none"
  /\ n_fn' = "version"
  /\ n_out' = << VersionGate(n_in.cli, n_in.returncode,
                             VersionLine(n_in.product, n_in.version)) >>
  /\ UNCHANGED << n_in, runVars, mergeVars >>

\* gql_client = GqlClient(...): reached when no check raised
Login ==
  /\ n_fn = "version" /\ n_out[1].ok
  /\ n_fn' = "login"
  /\ UNCHANGED << n_in, n_out, runVars, mergeVars >>

GateNext == CheckVersion \/ Login

SpecGate == GateInit /\ [][GateNext]_vars

\* v >= w of two versions, component by component as numbers
VersionAtLeast(v, w) ==
  \/ v[1] > w[1]
  \/ v[1] = w[1] /\ v[2] > w[2]
  \/ v[1] = w[1] /\ v[2] = w[2] /\ v[3] >= w[3]

\* the CLI is terraform and reports Terraform >= 1.3.5, or it is tofu and
\* reports OpenTofu >= 1.6.2
Supported(in) ==
  /\ in.returncode = 0
  /\ IF Contains(in.cli, << "t", "e", "r", "r", "a", "f", "o", "r", "m" >>)
       THEN /\ in.product = << "T", "e", "r", "r", "a", "f", "o", "r", "m" >>
            /\ VersionAtLeast(in.version, << 1, 3, 5 >>)
       ELSE /\ in.product = << "O", "p", "e", "n", "T", "o", "f", "u" >>
            /\ VersionAtLeast(in.version, << 1, 6, 2 >>)

\* C23: the version check passes exactly when the CLI reports a supported
\* version, compared component by component as numbers (1.10.0 and 1.3.10
\* are at least 1.3.5); a run whose check failed does not log in, and
\* nothing has been queried or written when the check is made.
C23_VersionGate ==
  /\ n_fn \in { "version", "login" } => (n_out[1].ok <=> Supported(n_in))
  /\ n_fn = "login" => Supported(n_in)
  /\ log = << >> /\ fs = EmptyFs

\* the listing kinds the getters before the g-th one went through
EarlierKinds(g) == { Getters[h] : h \in 1..(g - 1) } \cap Listings

\* every page of a kind has been asked for, and every item of every page
\* that is keyed by name is in its bucket
Complete(kind, built) ==
  /\ Len(QueriesFor(kind)) = Len(service.pages[kind])
  /\ Len(built) = Len(Flatten(service.pages[kind]))
  /\ \A i \in DOMAIN built :
       (built[i].module \in { "resource", "data" }
          /\ Bucket(built[i].module, built[i].class) # "none") =>
         /\ built[i].data = Flatten(service.pages[kind])[i].v
         /\ built[i].data["name"]
              \in DOMAIN registry[Bucket(built[i].module, built[i].class)]

\* C24: while a kind is being listed nothing of it has been encoded and no
\* edge exists; once an object of the kind is encoded, or an edge exists,
\* every page of the kind has been fetched and all its objects are
\* constructed and registered; and when a kind is queried, every kind
\* before it has been fetched in full and its document is written.
C24_ListThenEncode ==
  /\ pc = "list" =>
       /\ doc = M(EmptyMap) /\ edges = << >> /\ edges_json = M(EmptyMap)
       /\ \A k \in EarlierKinds(getter) :
            Len(QueriesFor(k)) = Len(service.pages[k]) /\ DocFile(k) \in DOMAIN fs.files
       /\ \A h \in (getter + 1)..Len(Getters) : QueriesFor(Getters[h]) = << >>
  /\ (pc = "encode" /\ getter \in DOMAIN Getters) => Complete(Getters[getter], objs)
  /\ (doc # M(EmptyMap) \/ edges # << >>) =>
       /\ getter \in DOMAIN Getters
       /\ Complete(Getters[getter], objs)

\* the edge n1 -> n2 is encoded with its target resolved, n2 having come on
\* the second page of nodes and n1, which carries the edge, on the first
C24_Witness ==
  /\ Len(service.pages["nodes_and_edges"]) = 2
  /\ service.pages["nodes_and_edges"][1]["echos"].v[1].v["name"] = W("n1")
  /\ service.pages["nodes_and_edges"][2]["echos"].v[1].v["name"] = W("n2")
  /\ Len(edges) = 1
  /\ "resource" \in DOMAIN edges_json.v
  /\ edges_json.v["resource"].v["echostream_edge"].v["n1_n2"].v["target"]
       = Reference(registry["NODES"][W("n2")])

\* the keys of a payload that are not attributes by themselves: the type,
\* the identity of an API user, the system flag, the edges of a node, the
\* inline JSON fields, the cross-references and the artifacts of the class
Special(class) ==
  { "__typename", "username", "system", "sendEdges", "routeTable", "configTemplate" }
    \cup { r[1] : r \in RefFields }
    \cup { a[1] : a \in ArtifactsOf(class) }

\* the fields of a payload that carry a value of their own
Plain(o) ==
  { f \in DOMAIN o.data \ Special(o.class) : o.data[f].t # "none" }

\* the attributes the document being built holds for an object, under
\* its type and local name
EncodedAs(o) ==
  LET e == doc.v[o.module].v[ObjectType(o)].v[Str(LocalName(o).v)]
  IN  IF e.t = "tuple" THEN e.v[1].v ELSE e.v

\* the attributes hold the plain fields of the payload, and those only
\* when not null (sequentialProcessing apart, which has a default)
Copied(o, attributes) ==
  /\ \A f \in Plain(o) :
       /\ ConvKey(f) \in DOMAIN attributes
       /\ attributes[ConvKey(f)] = ConvertValue(o.data[f])
  /\ \A f \in DOMAIN o.data \ (Special(o.class) \cup { "sequentialProcessing" }) :
       o.data[f].t = "none" => ConvKey(f) \notin DOMAIN attributes

\* C25: the attributes of every resource a listing getter has encoded hold
\* each declared required key and each plain field the payload carries with
\* a non-null value (false, 0 and the empty string included) under its
\* snake-cased key, the value being the payload's with the keys of nested
\* maps snake-cased; a key whose payload value is null is not there
\* (sequential_processing apart).
C25_ComputeAttributes ==
  Encoding =>
    \A k \in 1..(idx - 1) :
      (k \in DOMAIN objs /\ objs[k].module = "resource") =>
        Copied(objs[k], EncodedAs(objs[k]))

\* the inline JSON field of a class and the attribute made of it
InlineJson ==
  ("BitmapRouterNode" :> << "routeTable", "route_table" >>)
    @@ ("ManagedNodeType" :> << "configTemplate", "config_template" >>)

\* the inline JSON field of the payload holds a JSON object that is not empty
NonEmptyJson(o) ==
  /\ Present(o, InlineJson[o.class][1])
  /\ Str(o.data[InlineJson[o.class][1]].v) # "{}"

\* nothing but the inline JSON field can stop the encoding of the object:
\* the references of a bitmap router node are registered, and a managed node
\* type has no readme and no message types
InlineOnly(o) ==
  /\ o.module = "resource" /\ o.class \in DOMAIN InlineJson
  /\ "name" \in DOMAIN o.data
  /\ o.class = "BitmapRouterNode" =>
       /\ Present(o, "receiveMessageType")
       /\ o.data["receiveMessageType"].v["name"] \in DOMAIN registry["MESSAGE_TYPES"]
       /\ Present(o, "managedBitmapper") =>
            o.data["managedBitmapper"].v["name"] \in DOMAIN registry["FUNCTIONS"]
  /\ o.class = "ManagedNodeType" =>
       \A f \in { "readme", "receiveMessageType", "sendMessageType" } : ~Present(o, f)

\* C26: an entity with an inline JSON field is encoded whatever the field
\* holds: the run does not fail on it, and once it is encoded the attribute
\* is among its attributes exactly when the field holds a JSON object that
\* is not empty ("{}", null and an absent field give no attribute).
C26_InlineJson ==
  Encoding =>
    /\ \A k \in 1..(idx - 1) :
         (k \in DOMAIN objs /\ InlineOnly(objs[k])) =>
           (InlineJson[objs[k].class][2] \in DOMAIN EncodedAs(objs[k])
              <=> NonEmptyJson(objs[k]))
    /\ (pc = "failed" /\ idx \in DOMAIN objs) => ~InlineOnly(objs[idx])

\* the cross-reference fields of a node payload, the registry each resolves
\* in and the attribute it becomes
NodeRefs ==
  ("app" :> << "APPS", "app" >>)
    @@ ("receiveMessageType" :> << "MESSAGE_TYPES", "receive_message_type" >>)
    @@ ("sendMessageType" :> << "MESSAGE_TYPES", "send_message_type" >>)
    @@ ("managedNodeType" :> << "MANAGED_NODE_TYPES", "managed_node_type" >>)
    @@ ("managedBitmapper" :> << "FUNCTIONS", "managed_bitmapper" >>)
    @@ ("managedProcessor" :> << "FUNCTIONS", "managed_processor" >>)
    @@ ("managedApiAuthenticator" :> << "FUNCTIONS", "managed_api_authenticator" >>)

\* the attributes hold, for every cross-reference the payload carries, a
\* reference to the object registered under the name
Referenced(o, attributes) ==
  \A f \in DOMAIN NodeRefs :
    Present(o, f) =>
      /\ o.data[f].v["name"] \in DOMAIN registry[NodeRefs[f][1]]
      /\ NodeRefs[f][2] \in DOMAIN attributes
      /\ attributes[NodeRefs[f][2]]
           = Reference(registry[NodeRefs[f][1]][o.data[f].v["name"]])

\* the run failed building a reference to a registered object
ReferenceFailed ==
  /\ pc = "failed" /\ err.exc = "TypeError"
  /\ err.args = << Text("unexpected keyword argument 'attr'") >>

\* C27: while the nodes are encoded, the attributes of every node resource
\* encoded so far hold, for each cross-reference field of its payload, a
\* reference bound to the object registered under the name, and the run
\* does not fail building a reference whose target is registered.
C27_NodeReferences ==
  (Encoding /\ Getters[getter] = "nodes_and_edges") =>
    /\ \A k \in 1..(idx - 1) :
         (k \in DOMAIN objs /\ objs[k].module = "resource") =>
           Referenced(objs[k], EncodedAs(objs[k]))
    /\ ~ReferenceFailed

\* objectClass, objectType and localIdentifier of an object: the path of
\* its entry in the document of its grouping
Place(o) == << o.module, ObjectType(o), LocalName(o).v >>

\* the number of entries of a document: one per class, type and local name
RECURSIVE Entries(_, _)
Entries(d, paths) ==
  IF paths = {} THEN 0
  ELSE LET p == CHOOSE q \in paths : TRUE
       IN  Cardinality(DOMAIN d.v[p[1]].v[p[2]].v) + Entries(d, paths \ { p })

\* the class and type pairs a document holds
TypesOf(d) == UNION { { << m, t >> : t \in DOMAIN d.v[m].v } : m \in DOMAIN d.v }

\* C28: the objects of a listing have places of their own in the document,
\* and while the listing is encoded the document holds one entry for each
\* entity encoded so far.
C28_DistinctPlaces ==
  Encoding =>
    /\ \A i, j \in DOMAIN objs :
         (i < j /\ objs[i].module # "none" /\ objs[j].module # "none"
            /\ LocalName(objs[i]).ok /\ LocalName(objs[j]).ok
            /\ Identity(objs[i]) # Identity(objs[j])) =>
           Place(objs[i]) # Place(objs[j])
    /\ pc = "encode" =>
         Entries(doc, TypesOf(doc))
           = Cardinality({ << objs[k].class, Identity(objs[k]) >> : k \in 1..(idx - 1) })

\* the user has no role (no key, null or empty), or is the owner
Unmanaged(u) ==
  \/ "role" \notin DOMAIN u
  \/ u["role"] \in { None, S(<< >>), W("owner") }

\* the local names under which tenant-users.tf.json holds a user
UserEntries ==
  LET d == fs.files["tenant-users.tf.json"]
  IN  IF "resource" \in DOMAIN d.v
        THEN DOMAIN d.v["resource"].v["echostream_tenant_user"].v
        ELSE {}

\* the objects the getters returned for a user of the tenant
ObjectsOf(u) ==
  { k \in DOMAIN terraform_objects :
      terraform_objects[k] = [ module |-> "resource", class |-> "TenantUser", data |-> u ] }

\* the import commands run for the address of a user
ImportsOf(u) ==
  { i \in DOMAIN Imports :
      Imports[i].args[2]
        = "echostream_tenant_user." \o Str(ConvertToLocalName(u["email"].v)) }

\* C29: once the tenant and its users are processed, a user who is the owner
\* or has no role has no object, no entry in tenant-users.tf.json and no
\* import command; every other user has one object, whose identity is the
\* email, one entry, and at most one import command, passed the email, and
\* exactly one when the run is through.
C29_TenantUsers ==
  "tenant-users.tf.json" \in DOMAIN fs.files =>
    \A n \in DOMAIN service.tenant["users"].v :
      LET u == service.tenant["users"].v[n].v
      IN  IF Unmanaged(u)
            THEN /\ ObjectsOf(u) = {}
                 /\ Str(ConvertToLocalName(u["email"].v)) \notin UserEntries
                 /\ ImportsOf(u) = {}
            ELSE /\ Cardinality(ObjectsOf(u)) = 1
                 /\ \A k \in ObjectsOf(u) : Identity(terraform_objects[k]) = Ok(u["email"])
                 /\ Str(ConvertToLocalName(u["email"].v)) \in UserEntries
                 /\ Cardinality(ImportsOf(u)) <= 1
                 /\ \A i \in ImportsOf(u) : Imports[i].args[3] = u["email"]
                 /\ pc = "done" => Cardinality(ImportsOf(u)) = 1

\* a run is through on a tenant with an owner, three users without a role
\* and two users with one, both in the document and imported
C29_Witness ==
  /\ pc = "done"
  /\ Len(service.tenant["users"].v) = 6
  /\ UserEntries = { "n1", "a_b_c" }
  /\ \E i \in DOMAIN Imports :
       Imports[i].args = << "import", "echostream_tenant_user.n1", W("n1") >>

\* the configuration documents of a run: those of __process_main, of the
\* tenant and its users, and of every listing
Documents ==
  { "main.tf.json", "provider.tf.json", "tenant.tf.json", "tenant-users.tf.json",
    "edges.tf.json" } \cup { DocFile(kind) : kind \in Listings }

\* the documents written so far
DocsWritten == { log[i].file : i \in { j \in DOMAIN log : log[j].ev = "write" } }

\* terraform.tfstate, if there is one, has no outputs and no resources
Cleared(files) ==
  "terraform.tfstate" \in DOMAIN files.files =>
    /\ files.files["terraform.tfstate"].v["outputs"] = M(EmptyMap)
    /\ files.files["terraform.tfstate"].v["resources"] = L(<< >>)

\* the order of what the run has done so far
Ordered ==
  /\ \A i, j \in DOMAIN log : (i < j /\ log[i].ev = "cli") => log[j].ev = "cli"
  /\ Commands # << >> =>
       /\ Commands[1] = Cli(<< "init" >>)
       /\ DocsWritten = Documents /\ Documents \subseteq DOMAIN fs.files
  /\ \A k \in 2..Len(Commands) :
       /\ Commands[k].args[1] \in { "import", "plan" }
       /\ Commands[k].args[1] = "plan" =>
            /\ k = Len(Commands) /\ pc = "done"
            /\ Len(Imports) = Len(Resources)
  /\ pc = "tfstate" => Commands = << Cli(<< "init" >>) >>
  /\ Imports # << >> => pc \in { "import", "done", "failed" }
  /\ (pc = "import" /\ Imports = << >>) => Cleared(fs)

\* the steps between init and the first import
Steps ==
  /\ pc = "init" => (fs' = fs /\ pc' \in { "tfstate", "failed" })
  /\ pc = "tfstate" => (pc' = "import" /\ Cleared(fs') /\ log' = log)
  /\ (Imports = << >> /\ Imports' # << >>) => (pc = "import" /\ Cleared(fs))

\* C30: nothing but CLI commands follows the first CLI command; it is init
\* and every document of the run is written by then; the state file found
\* is cleared in the step after init and before the first import; plan is
\* the last command and is run once every resource is imported, none of
\* the imports having failed.
C30_StepOrder == []Ordered /\ [][Steps]_vars

\* a run on a directory that held a state file is through: init, the
\* imports, plan
C30_Witness ==
  /\ pc = "done" /\ service.tfstate
  /\ Len(Commands) = Len(Resources) + 2 /\ Len(Imports) >= 2
  /\ Commands[Len(Commands)] = Cli(<< "plan" >>)
  /\ DocsWritten = Documents

=============================================================================
